---------------------------- MODULE Spec2Model ----------------------------
(***************************************************************************)
(* Routing and safety core of claude-sms-connect (Telegram variant):       *)
(*   - ProjectRegistry   (services/project-registry, in telegram-poller.ts)*)
(*   - TmuxService       (services/tmux, in telegram-poller.ts)            *)
(*   - handleMessage     (services/telegram-poller.ts)                     *)
(*   - POST /api/notify  (routes/notify, unnamed/part_007) behind          *)
(*     projectRateLimiter (middleware/rate-limit.ts)                       *)
(*   - startPolling, stopPolling, pollLoop (services/telegram-poller.ts)   *)
(*     with the Telegram server behind TelegramService.getUpdates          *)
(* Strings are sequences of one-character strings, so that trim,           *)
(* toUpperCase, the numbered-reply regex and the session-name regex are    *)
(* computed character by character as the code computes them.             *)
(* Every `await` of the code is a point where the other flow may run: one  *)
(* action of the model is the code between two awaits.                     *)
(***************************************************************************)
EXTENDS Integers, Sequences, FiniteSets, TLC

(***************************************************************************)
(* Bounds of the model                                                     *)
(***************************************************************************)
\* number of clock advances explored
MaxTicks == 1
\* Date.now() when the server starts
StartTime == 1
\* milliseconds added to Date.now() by one clock advance
TickMs == 5000
\* number of pollLoop() calls that may be in progress side by side
MaxLoops == 2
\* number of updates the Telegram server receives
MaxUpdates == 2
\* largest maxChars formatForSMS is called with
MaxChars == 40
MaxMalformed == 6

(***************************************************************************)
(* Characters and strings                                                  *)
(***************************************************************************)
Digits == {"0", "1", "2", "3", "4", "5", "6", "7", "8", "9"}

Whitespace == {" ", "\n", "\t"}

Lower == {"a", "b", "c", "d", "e", "f", "g", "h", "i", "j", "k", "l", "m",
          "n", "o", "p", "q", "r", "s", "t", "u", "v", "w", "x", "y", "z"}

Upper == {"A", "B", "C", "D", "E", "F", "G", "H", "I", "J", "K", "L", "M",
          "N", "O", "P", "Q", "R", "S", "T", "U", "V", "W", "X", "Y", "Z"}

\* the empty string: JavaScript's falsy string / a missing payload field
Empty == << >>

DigitValue(c) ==
    CASE c = "0" -> 0 [] c = "1" -> 1 [] c = "2" -> 2 [] c = "3" -> 3
      [] c = "4" -> 4 [] c = "5" -> 5 [] c = "6" -> 6 [] c = "7" -> 7
      [] c = "8" -> 8 [] c = "9" -> 9

\* a handleMessage that compares the text as it was typed
toUpperCaseAsTyped(s) == s

\* String.prototype.toUpperCase on one character (the letters the replies use)
UpperChar(c) ==
    CASE c = "o" -> "O" [] c = "n" -> "N" [] c = "f" -> "F" [] c = "y" -> "Y"
      [] OTHER -> c

toUpperCase(s) == [i \in 1..Len(s) |-> UpperChar(s[i])]

RECURSIVE TrimStart(_)
TrimStart(s) ==
    IF s # Empty /\ Head(s) \in Whitespace THEN TrimStart(Tail(s)) ELSE s

RECURSIVE TrimEnd(_)
TrimEnd(s) ==
    IF s # Empty /\ s[Len(s)] \in Whitespace
    THEN TrimEnd(SubSeq(s, 1, Len(s) - 1))
    ELSE s

\* String.prototype.trim
trim(s) == TrimEnd(TrimStart(s))

\* length of the longest prefix of s whose characters are all in set
RECURSIVE PrefixLen(_, _)
PrefixLen(s, set) ==
    IF s # Empty /\ Head(s) \in set THEN 1 + PrefixLen(Tail(s), set) ELSE 0

\* a double too large to index any array: what parseInt yields for a digit
\* string longer than the exactly representable range modelled here
HugeNumber == 10 ^ 9

\* parseInt(digits, 10) for a non-empty string of decimal digits
RECURSIVE parseInt(_)
parseInt(ds) ==
    IF Len(ds) > 9 THEN HugeNumber
    ELSE IF ds = Empty THEN 0
    ELSE 10 * parseInt(SubSeq(ds, 1, Len(ds) - 1)) + DigitValue(ds[Len(ds)])


(***************************************************************************)
(* parseNumberedResponse: text.trim().match(/^(\d+)\s+(.+)$/s)             *)
(* hasIndex = FALSE stands for projectIndex === null.                      *)
(***************************************************************************)
parseNumberedResponse(text) ==
    LET t      == trim(text)
        nd     == PrefixLen(t, Digits)
        afterD == SubSeq(t, nd + 1, Len(t))
        nw     == PrefixLen(afterD, Whitespace)
        rest   == SubSeq(afterD, nw + 1, Len(afterD))
    IN  IF nd >= 1 /\ nw >= 1 /\ rest # Empty
        THEN [hasIndex     |-> TRUE,
              projectIndex |-> parseInt(SubSeq(t, 1, nd)) - 1,
              response     |-> trim(rest)]
        ELSE [hasIndex |-> FALSE, projectIndex |-> 0, response |-> t]

(***************************************************************************)
(* TmuxService.validateSessionName: /^[a-zA-Z0-9_-]+$/                     *)
(***************************************************************************)
SessionNameChars == Lower \cup Upper \cup Digits \cup {"_", "-"}

\* a check that accepts every name but the empty one
validateSessionNameNonEmpty(session) == session # Empty

validateSessionName(session) ==
    /\ session # Empty
    /\ \A i \in 1..Len(session) : session[i] \in SessionNameChars

(***************************************************************************)
(* ProjectRegistry.  The Map<string, ProjectMetadata> is the sequence of   *)
(* its entries [key, value] in insertion order.                            *)
(***************************************************************************)
\* the value `undefined`
Undefined == [undefined |-> TRUE]

ThrottleMs == 5000

\* position of the entry with this key, 0 when the Map has none
RECURSIVE KeyIndex(_, _)
KeyIndex(ps, projectId) ==
    IF ps = << >> THEN 0
    ELSE IF ps[Len(ps)].key = projectId /\ KeyIndex(SubSeq(ps, 1, Len(ps) - 1), projectId) = 0
         THEN Len(ps)
         ELSE KeyIndex(SubSeq(ps, 1, Len(ps) - 1), projectId)

MapHas(ps, projectId) == KeyIndex(ps, projectId) # 0

MapGet(ps, projectId) ==
    IF MapHas(ps, projectId) THEN ps[KeyIndex(ps, projectId)].value ELSE Undefined

\* Map.prototype.set: an existing key keeps its position, a new key goes last
MapSetFront(ps, projectId, metadata) ==
    IF MapHas(ps, projectId)
    THEN [ps EXCEPT ![KeyIndex(ps, projectId)].value = metadata]
    ELSE <<[key |-> projectId, value |-> metadata]>> \o ps

\* a Map of capacity one: a new key pushes the oldest entry out
MapSetEvicting(ps, projectId, metadata) ==
    IF MapHas(ps, projectId)
    THEN [ps EXCEPT ![KeyIndex(ps, projectId)].value = metadata]
    ELSE Append(IF ps = << >> THEN ps ELSE Tail(ps),
                [key |-> projectId, value |-> metadata])

MapSet(ps, projectId, metadata) ==
    IF MapHas(ps, projectId)
    THEN [ps EXCEPT ![KeyIndex(ps, projectId)].value = metadata]
    ELSE Append(ps, [key |-> projectId, value |-> metadata])

\* a delete that fills the gap with the last entry
MapDeleteSwap(ps, projectId) ==
    LET k == KeyIndex(ps, projectId)
    IN  IF k = 0 THEN ps
        ELSE IF k = Len(ps) THEN SubSeq(ps, 1, k - 1)
        ELSE [SubSeq(ps, 1, Len(ps) - 1) EXCEPT ![k] = ps[Len(ps)]]

\* Map.prototype.delete
MapDelete(ps, projectId) ==
    LET k == KeyIndex(ps, projectId)
    IN  IF k = 0 THEN ps
        ELSE SubSeq(ps, 1, k - 1) \o SubSeq(ps, k + 1, Len(ps))

\* the registeredAt a register call stores: existing?.registeredAt ?? Date.now()
RegisteredAtAlwaysNow(existing, t) == t

RegisteredAtOf(existing, t) ==
    IF existing = Undefined THEN t ELSE existing.registeredAt

\* the return value of register: !existing
IsFirstAlwaysTrue(existing) == TRUE

IsFirstRegistration(existing) == existing = Undefined

\* a register that deletes the entry and stores a fresh one
registerAfresh(ps, projectId, sessionId, projectName, t) ==
    [projects            |-> Append(MapDelete(ps, projectId),
                                    [key |-> projectId,
                                     value |-> [sessionId    |-> sessionId,
                                                projectName  |-> projectName,
                                                lastNotified |-> 0,
                                                registeredAt |-> t]]),
     isFirstRegistration |-> ~MapHas(ps, projectId)]

\* register(projectId, sessionId, projectName) at time t
register(ps, projectId, sessionId, projectName, t) ==
    LET existing == MapGet(ps, projectId)
        metadata == [sessionId    |-> sessionId,
                     projectName  |-> projectName,
                     lastNotified |-> IF existing = Undefined THEN 0
                                      ELSE existing.lastNotified,
                     registeredAt |-> RegisteredAtOf(existing, t)]
    IN  [projects            |-> MapSet(ps, projectId, metadata),
         isFirstRegistration |-> IsFirstRegistration(existing)]

\* a listing that is always empty
getActiveProjectsNone(ps) == << >>

getActiveProjects(ps) == [i \in 1..Len(ps) |-> ps[i].value]

\* projects[index] of a JavaScript array: undefined outside 0..length-1
getByIndexOneBased(ps, index) ==
    IF index \in 1..Len(ps) THEN getActiveProjects(ps)[index] ELSE Undefined

getByIndex(ps, index) ==
    IF index \in 0..(Len(ps) - 1) THEN getActiveProjects(ps)[index + 1] ELSE Undefined

canNotifyIgnoringArmed(ps, isArmed, projectId, t) ==
    LET project == MapGet(ps, projectId)
    IN  IF project = Undefined THEN FALSE
        ELSE IF project.lastNotified = 0 THEN TRUE
        ELSE t - project.lastNotified >= ThrottleMs

canNotify(ps, isArmed, projectId, t) ==
    IF ~isArmed THEN FALSE
    ELSE LET project == MapGet(ps, projectId)
         IN  IF project = Undefined THEN FALSE
             ELSE IF project.lastNotified = 0 THEN TRUE
             ELSE t - project.lastNotified >= ThrottleMs

recordNotification(ps, projectId, t) ==
    IF MapHas(ps, projectId)
    THEN [ps EXCEPT ![KeyIndex(ps, projectId)].value.lastNotified = t]
    ELSE ps

remove(ps, projectId) ==
    [projects |-> MapDelete(ps, projectId), existed |-> MapHas(ps, projectId)]

\* findProjectIdBySession: the key of the first entry, in insertion order,
\* whose sessionId is the given one; Empty (falsy) when there is none
RECURSIVE findProjectIdBySession(_, _)
findProjectIdBySession(ps, sessionId) ==
    IF ps = << >> THEN Empty
    ELSE IF Head(ps).value.sessionId = sessionId THEN Head(ps).key
    ELSE findProjectIdBySession(Tail(ps), sessionId)

(***************************************************************************)
(* Inputs                                                                  *)
(***************************************************************************)
\* tmux session names and project identifiers
sA == <<"s", "A">>
sB == <<"s", "B">>
sBad == <<"a", ";", "b">>
sF == <<"s", "F">>
p1 == <<"p", "1">>
p2 == <<"p", "2">>
alpha == <<"a", "l", "p", "h", "a">>
beta == <<"b", "e", "t", "a">>

\* hook payloads (NotificationPayload); Empty is a missing field
Payloads ==
    { [project_id |-> p1, session_id |-> Empty, tmux_session |-> sA, project_name |-> alpha],
      [project_id |-> p2, session_id |-> Empty, tmux_session |-> sB, project_name |-> beta],
      [project_id |-> p1, session_id |-> Empty, tmux_session |-> sB, project_name |-> alpha],
      [project_id |-> p2, session_id |-> Empty, tmux_session |-> sBad, project_name |-> Empty] }

\* a || b on strings
OrElse(a, b) == IF a # Empty THEN a ELSE b

PayloadProjectId(payload) == OrElse(payload.project_id, payload.session_id)

PayloadSessionId(payload, env) ==
    OrElse(payload.tmux_session, OrElse(payload.session_id, env))

PayloadProjectName(payload) ==
    OrElse(payload.project_name, PayloadProjectId(payload))

ProjectIds == {PayloadProjectId(payload) : payload \in Payloads}

\* inbound message texts: the control commands, ...
ControlTexts ==
    { <<"O", "N">>, <<" ", "o", "n", "\n">>, <<"O", "F", "F">>, <<"o", "f", "f">> }

\* ... texts that are empty once trimmed, ...
BlankTexts == { Empty, <<" ">>, <<"\n", " ">> }

\* ... replies without a leading number, ...
BareTexts == { <<"Y">>, <<"\t", "Y", "\n">> }

\* ... and numbered replies "k PAYLOAD", each with the number and the payload
\* it is written with (k = HugeNumber: a number beyond any registry size)
NumberedReplies ==
    { [text |-> <<"1", " ", "Y">>, k |-> 1, payload |-> <<"Y">>],
      [text |-> <<"2", " ", "Y">>, k |-> 2, payload |-> <<"Y">>],
      [text |-> <<"3", " ", "Y">>, k |-> 3, payload |-> <<"Y">>],
      [text |-> <<"0", " ", "Y">>, k |-> 0, payload |-> <<"Y">>],
      [text |-> <<"0", "2", "\t", " ", "Y">>, k |-> 2, payload |-> <<"Y">>],
      [text |-> <<"9", "9", "9", "9", "9", "9", "9", "9", "9", "9", "9", "9", " ", "Y">>,
       k |-> HugeNumber, payload |-> <<"Y">>],
      [text |-> <<"1", " ", "O", "N">>, k |-> 1, payload |-> <<"O", "N">>],
      [text |-> <<"1", " ", "a", "\n", "b">>, k |-> 1, payload |-> <<"a", "\n", "b">>] }

Texts ==
    ControlTexts \cup BlankTexts \cup BareTexts \cup {r.text : r \in NumberedReplies}

\* the texts of the notification flow: the control commands and one reply
NotifyTexts == ControlTexts \cup { <<"1", " ", "Y">> }

\* values of the TMUX_SESSION environment variable
FallbackSessions == {Empty, sF}

\* the event handlers that may be in flight at once
Handlers == {"h1"}

\* ... and where two requests are followed side by side
AllHandlers == {"h1", "h2"}

\* hook payloads for one project: with its project_id, and in the older form
\* that carries only session_id
ThrottlePayloads ==
    { [project_id |-> p1, session_id |-> Empty, tmux_session |-> sA, project_name |-> alpha],
      [project_id |-> Empty, session_id |-> p1, tmux_session |-> sA, project_name |-> alpha] }

ON == <<"O", "N">>
OFF == <<"O", "F", "F">>

\* chat ids of Telegram updates: the operator's chat and another chat
OperatorChat == 7
StrangerChat == 8

\* the chat of a message that has none (message.chat is undefined)
NoChat == 0

\* TELEGRAM_CHAT_ID set to the operator's chat
OperatorChatId == <<"7">>

\* TELEGRAM_CHAT_ID: set, or not set
ChatIdSettings == {OperatorChatId, Empty}

\* message.text of the updates; Empty stands for a message without text
UpdateTexts == { ON, OFF, <<"Y">>, Empty }

\* the pollLoop() calls told apart
LoopIds == 1..MaxLoops

(***************************************************************************)
(* projectRateLimiter (express-rate-limit with its in-memory store)        *)
(***************************************************************************)
windowMs == 5000
max == 1

\* req.ip: every hook call comes from the same machine
ClientIp == <<"i", "p">>

keyGenerator(payload) ==
    IF payload.project_id # Empty THEN payload.project_id ELSE ClientIp

LimiterKeys == ProjectIds \cup {ClientIp}

\* a key without an open window
NoWindow == [totalHits |-> 0, resetTime |-> 0]

\* one request under key at time t: a window that has run out is replaced by
\* a new one of windowMs; the request is admitted while the window has had
\* fewer than max requests (totalHits counts the admitted ones)
increment(lim, key, t) ==
    LET client   == IF lim[key].resetTime <= t
                    THEN [totalHits |-> 0, resetTime |-> t + windowMs]
                    ELSE lim[key]
        admitted == client.totalHits < max
    IN  [limiter  |-> [lim EXCEPT ![key] =
                          IF admitted THEN [client EXCEPT !.totalHits = @ + 1]
                          ELSE client],
         admitted |-> admitted]

\* the windows that have run out at time t are dropped
expire(lim, t) ==
    [k \in DOMAIN lim |-> IF lim[k].resetTime <= t THEN NoWindow ELSE lim[k]]

(***************************************************************************)
(* The redactor: formatForSMS (lib/sanitize.ts) with redactSensitiveData   *)
(* (lib/redact, unnamed/part_004).  Three of the rules of                  *)
(* REDACTION_PATTERNS are modelled, in the order the list has them; the    *)
(* inputs contain nothing the other rules match.                           *)
(***************************************************************************)
\* characters written as tokens: U+001B (escape) and U+00E9, one character each
ESC == "U+001B"
EAcute == "U+00E9"

\* [^\x00-\x7F] among the characters of the inputs
NonAscii == {EAcute}

Alphabet == <<"a", "b", "c", "d", "e", "f", "g", "h", "i", "j", "k", "l", "m",
              "n", "o", "p", "q", "r", "s", "t", "u", "v", "w", "x", "y", "z">>

Capitals == <<"A", "B", "C", "D", "E", "F", "G", "H", "I", "J", "K", "L", "M",
              "N", "O", "P", "Q", "R", "S", "T", "U", "V", "W", "X", "Y", "Z">>

\* the canonical form of c under the i flag
Fold(c) ==
    IF \E k \in 1..26 : Capitals[k] = c
    THEN Alphabet[CHOOSE k \in 1..26 : Capitals[k] = c]
    ELSE c

Alnum == Lower \cup Upper \cup Digits

Quotes == {"'", "\""}

\* the length of the longest run of characters of s from position i on
\* that are in set (inSet) or not in set (~inSet)
RECURSIVE RunLen(_, _, _, _)
RunLen(s, i, set, inSet) ==
    IF i <= Len(s) /\ ((s[i] \in set) <=> inSet)
    THEN 1 + RunLen(s, i + 1, set, inSet)
    ELSE 0

\* the literal w at position i of s: the position after it, 0 if it is not there
Literal(s, i, w, ignoreCase) ==
    IF /\ i + Len(w) - 1 <= Len(s)
       /\ \A k \in 1..Len(w) :
             IF ignoreCase THEN Fold(s[i + k - 1]) = Fold(w[k])
             ELSE s[i + k - 1] = w[k]
    THEN i + Len(w)
    ELSE 0

\* (?:w1|w2|...) under the i flag: the first alternative that is there
RECURSIVE Alternatives(_, _, _)
Alternatives(s, i, words) ==
    IF words = << >> THEN 0
    ELSE IF Literal(s, i, Head(words), TRUE) # 0
         THEN Literal(s, i, Head(words), TRUE)
         ELSE Alternatives(s, i, Tail(words))

\* \s*[:=]\s*['"]VALUE{minLen,}['"] at position i, VALUE being the characters
\* in set (inSet) or not in set (~inSet): the position after it, 0 if it is
\* not there
Assignment(s, i, set, inSet, minLen) ==
    LET eq    == i + RunLen(s, i, Whitespace, TRUE)
        quote == eq + 1 + RunLen(s, eq + 1, Whitespace, TRUE)
        value == quote + 1
        close == value + RunLen(s, value, set, inSet)
    IN  IF /\ eq <= Len(s) /\ s[eq] \in {":", "="}
           /\ quote <= Len(s) /\ s[quote] \in Quotes
           /\ close - value >= minLen
           /\ close <= Len(s) /\ s[close] \in Quotes
        THEN close + 1
        ELSE 0

AKIA == <<"A", "K", "I", "A">>

ApiKeyWords == << <<"a", "p", "i", "_", "k", "e", "y">>, <<"a", "p", "i", "-", "k", "e", "y">>, <<"a", "p", "i", "k", "e", "y">> >>

PasswordWords == << <<"p", "a", "s", "s", "w", "o", "r", "d">>, <<"p", "a", "s", "s", "w", "d">>, <<"p", "w", "d">> >>

\* REDACTION_PATTERNS: name and replacement of the rules modelled
REDACTION_PATTERNS ==
    << [name |-> "AWS Access Key ID",
        replacement |-> <<"[", "R", "E", "D", "A", "C", "T", "E", "D", "_", "A", "W", "S", "_",
      "K", "E", "Y", "]">>],
       [name |-> "API Key Assignment",
        replacement |-> <<"[", "R", "E", "D", "A", "C", "T", "E", "D", "_", "A", "P", "I", "_",
      "K", "E", "Y", "]">>],
       [name |-> "Password Assignment",
        replacement |-> <<"[", "R", "E", "D", "A", "C", "T", "E", "D", "_", "P", "A", "S", "S",
      "W", "O", "R", "D", "]">>] >>

\* the pattern of the rule called name at position i of s: the position
\* after the match, 0 for no match
\*   /AKIA[0-9A-Z]{16}/g
\*   /(?:api[_-]?key|apikey)\s*[:=]\s*['"][a-zA-Z0-9]{20,}['"]/gi
\*   /(?:password|passwd|pwd)\s*[:=]\s*['"][^\s'"]{8,}['"]/gi
MatchAt(name, s, i) ==
    CASE name = "AWS Access Key ID" ->
           LET k == Literal(s, i, AKIA, FALSE)
           IN  IF k # 0 /\ RunLen(s, k, Upper \cup Digits, TRUE) >= 16
               THEN k + 16 ELSE 0
      [] name = "API Key Assignment" ->
           LET k == Alternatives(s, i, ApiKeyWords)
           IN  IF k # 0 THEN Assignment(s, k, Alnum, TRUE, 20) ELSE 0
      [] name = "Password Assignment" ->
           LET k == Alternatives(s, i, PasswordWords)
           IN  IF k # 0 THEN Assignment(s, k, Whitespace \cup Quotes, FALSE, 8)
               ELSE 0

\* s.replace(pattern, replacement) from position i on, pattern with the g flag
RECURSIVE replace(_, _, _)
replace(s, i, rule) ==
    IF i > Len(s) THEN << >>
    ELSE IF MatchAt(rule.name, s, i) # 0
         THEN rule.replacement \o replace(s, MatchAt(rule.name, s, i), rule)
         ELSE <<s[i]>> \o replace(s, i + 1, rule)

\* the for loop of redactSensitiveData over the rules from the n-th on
RECURSIVE redactFrom(_, _, _)
redactFrom(text, n, patterns) ==
    IF n > Len(patterns) THEN text
    ELSE redactFrom(replace(text, 1, patterns[n]), n + 1, patterns)

redactSensitiveData(text) == redactFrom(text, 1, REDACTION_PATTERNS)

\* stripAnsi(text) of the strip-ansi package, for the CSI sequences
\* ESC [ parameters letter
RECURSIVE stripAnsiCodes(_)
stripAnsiCodes(text) ==
    IF text = << >> THEN << >>
    ELSE LET params == RunLen(text, 3, Digits \cup {";"}, TRUE)
         IN  IF /\ Len(text) >= 3 + params
                /\ text[1] = ESC
                /\ text[2] = "["
                /\ text[3 + params] \in Lower \cup Upper
             THEN stripAnsiCodes(SubSeq(text, 4 + params, Len(text)))
             ELSE <<Head(text)>> \o stripAnsiCodes(Tail(text))

\* cleaned.replace(/[^\x00-\x7F]/g, '')
stripNonAscii(cleaned) == SelectSeq(cleaned, LAMBDA c : c \notin NonAscii)

\* cleaned.substring(0, maxChars) + '...' where cleaned is longer
truncate(cleaned, maxChars) ==
    IF Len(cleaned) > maxChars
    THEN SubSeq(cleaned, 1, maxChars) \o <<".", ".", ".">>
    ELSE cleaned

\* the stages of formatForSMS in the order of its statements, with truncation
\* ahead of redaction
StagesTruncateFirst == <<"stripAnsi", "truncate", "redact", "stripNonAscii", "trim">>

Stages == <<"stripAnsi", "redact", "stripNonAscii", "trim", "truncate">>

\* one statement of formatForSMS
applyStage(stage, cleaned, maxChars) ==
    CASE stage = "stripAnsi" -> stripAnsiCodes(cleaned)
      [] stage = "redact" -> redactSensitiveData(cleaned)
      [] stage = "stripNonAscii" -> stripNonAscii(cleaned)
      [] stage = "trim" -> trim(cleaned)
      [] stage = "truncate" -> truncate(cleaned, maxChars)

\* formatForSMS(text, maxChars) from its n-th statement on
RECURSIVE formatFrom(_, _, _)
formatFrom(cleaned, maxChars, n) ==
    IF n > Len(Stages) THEN cleaned
    ELSE formatFrom(applyStage(Stages[n], cleaned, maxChars), maxChars, n + 1)

formatForSMS(text, maxChars) == formatFrom(text, maxChars, 1)

\* texts of the terminal, each with the secret in it and the rule the
\* secret matches
Secret16 == <<"a", "b", "c", "d", "e", "f", "1", "2", "3", "4", "5", "6", "7", "8",
      "9", "0">>

RedactInputs ==
    { [text |-> <<"p", "a", "s", "s", "w", "o", "r", "d", "=", "\"", "a", "b", "c", "d",
      "e", "f", "1", "2", "3", "4", "5", "6", "7", "8", "9", "0", "\"">>,
       secret |-> Secret16, rule |-> 3],
      [text |-> <<" ", "$", " ", "e", "x", "p", "o", "r", "t", " ", "P", "W", "D", " ",
      "=", " ", "'", "a", "b", "c", "d", "e", "f", "1", "2", "3", "4",
      "5", "6", "7", "8", "9", "0", "'", " ", "o", "k">>,
       secret |-> Secret16, rule |-> 3],
      [text |-> <<"p", "a", "s", "s", ESC, "[", "1", "m", "w", "o", "r", "d", "=", "\"",
      "a", "b", "c", "d", "e", "f", ESC, "[", "0", ";", "3", "2", "m",
      "1", "2", "3", "4", "5", "6", "7", "8", "9", "0", "\"">>,
       secret |-> Secret16, rule |-> 3],
      [text |-> <<"p", "a", "s", "s", "w", "o", "r", "d", "=", "\"", "a", "b", "c", "d",
      "e", EAcute, "f", "1", "2", "3", "4", "5", "6", "7", "8", "9", "0",
      "\"">>,
       secret |-> Secret16, rule |-> 3],
      [text |-> <<"k", "e", "y", " ", "A", "K", "I", "A", "0", "1", "2", "3", "4", "5",
      "6", "7", "8", "9", "A", "B", "C", "D", "E", "F", " ", "o", "k">>,
       secret |-> <<"A", "K", "I", "A", "0", "1", "2", "3", "4", "5", "6", "7", "8", "9",
      "A", "B", "C", "D", "E", "F">>, rule |-> 1],
      [text |-> <<"p", "a", "s", "s", "w", "d", ":", "\"", "A", "K", "I", "A", "0", "1",
      "2", "3", "4", "5", "6", "7", "8", "9", "A", "B", "C", "D", "E",
      "F", "g", "h", "i", "j", "k", "l", "m", "n", "o", "p", "\"">>,
       secret |-> <<"A", "K", "I", "A", "0", "1", "2", "3", "4", "5", "6", "7", "8", "9",
      "A", "B", "C", "D", "E", "F", "g", "h", "i", "j", "k", "l", "m",
      "n", "o", "p">>, rule |-> 3],
      [text |-> <<"a", "p", "i", "_", "k", "e", "y", "=", "\"", "A", "K", "I", "A", "0",
      "1", "2", "3", "4", "5", "6", "7", "8", "9", "A", "B", "C", "D",
      "E", "F", "g", "h", "i", "j", "k", "l", "m", "n", "o", "p", "\"">>,
       secret |-> <<"A", "K", "I", "A", "0", "1", "2", "3", "4", "5", "6", "7", "8", "9",
      "A", "B", "C", "D", "E", "F", "g", "h", "i", "j", "k", "l", "m",
      "n", "o", "p">>, rule |-> 2] }

(***************************************************************************)
(* State                                                                   *)
(***************************************************************************)
VARIABLES
    projects,       \* ProjectRegistry.projects
    armed,          \* ProjectRegistry.armed
    now,            \* Date.now()
    TMUX_SESSION,   \* process.env.TMUX_SESSION
    ev,             \* the /api/notify handlers in flight
    rp,             \* the handleMessage call in flight
    tmuxCmds,       \* tmux commands issued so far by the handleMessage call in flight
    out,            \* what the last step handed to telegramService.sendMessage
                    \* and wrote to the log
    life,           \* per project, since it was last absent from the registry:
                    \* register calls that returned true, the registeredAt the
                    \* first of them stored, welcome messages sent
    welcomed,       \* per project: a welcome message was sent for it, ever
    passedDisarmed, \* some canNotify call returned true while isArmed() was false
    limiter,        \* the rate limiter's store: per key, its window
    everArmed,      \* an ON command was handled, ever
    TELEGRAM_CHAT_ID, \* process.env.TELEGRAM_CHAT_ID
    polling,        \* let polling (telegram-poller.ts)
    lastUpdateId,   \* let lastUpdateId; 0 stands for undefined
    loops,          \* the pollLoop() calls: position and local variables of each
    updates,        \* the updates the Telegram server holds, oldest first
    nextUpdateId,   \* the update_id the server gives the next update
    call,           \* the TmuxService call in progress: operation, arguments, position
    shown,          \* history: the project ids behind the numbers of the last prompt
    notified,       \* history: per project, when recordNotification last ran for
                    \* it, also before a removal (0: never)
    fmt             \* the formatForSMS call in progress: its arguments, the
                    \* number of statements done, and its variable cleaned

\* the state of the poller and of the Telegram server
pollVars == <<TELEGRAM_CHAT_ID, polling, lastUpdateId, loops, updates, nextUpdateId>>

\* the state of the server but for the output of the last step
serverVars == <<projects, armed, now, TMUX_SESSION, ev, rp, tmuxCmds, life, welcomed,
                passedDisarmed, limiter, everArmed, fmt, call, shown, notified>>

vars == <<serverVars, out, pollVars>>

\* counters of the history variables count 0, 1, many
CountUp(n) == IF n >= 2 THEN n ELSE n + 1

\* a handler: its position and its local variables
EvIdle == [pc |-> "idle", projectId |-> Empty, sessionId |-> Empty,
           projectName |-> Empty, isNew |-> FALSE]

\* a handleMessage call: its position, its local variables, and
\*   number:   the 1-based number the reply named, 0 for a bare reply
\*   resolved: the key of the registry entry the reply was resolved to,
\*             Empty for the TMUX_SESSION fallback
\*   error:    what it threw, once pc = "rejected"
RpIdle == [pc |-> "idle", sessionId |-> Empty, projectName |-> Empty,
           response |-> Empty, number |-> 0, resolved |-> Empty, error |-> ""]

LifeNone == [regTrue |-> 0, firstAt |-> 0, welcomes |-> 0]

\* the text of a prompt message; NoBody for every other message
NoBody == [template |-> "", list |-> Empty, latest |-> Empty, context |-> Empty]

\* what a step puts out
\*   msg: the message handed to telegramService.sendMessage, "none" for none:
\*        "welcome" | "prompt" | "armed" | "disarmed" | "invalidNumber" |
\*        "noProjects" | "ambiguous" | "sessionNotFound"
\*   repeat: for a welcome message, whether the project was welcomed before
\*   log: "suppressed" (system disarmed) | "rateLimited" | "noSession" |
\*        "" otherwise
\*   http: the status of the HTTP response sent in this step, "" for none
\*   event: the projectId of the request this step received, Empty for none
\*   body: the text of a prompt message
NoOut == [msg |-> "none", repeat |-> FALSE, log |-> "", http |-> "",
          event |-> Empty, body |-> NoBody]

Msg(kind) == [NoOut EXCEPT !.msg = kind]

Log(line) == [NoOut EXCEPT !.log = line]

\* the output o of a step that also answered the request for projectId
Responded(o, status, projectId) == [o EXCEPT !.http = status, !.event = projectId]

\* private armed = false
ArmedAtStartTrue == TRUE

ArmedAtStart == FALSE

\* let backoff = 1000
InitialBackoff == 1000

\* const MAX_BACKOFF = 30000
MAX_BACKOFF == 30000

\* a pollLoop() call: its position and its local variables
\*   pc:       "off" (no call) | "flush" (awaiting getUpdates(lastUpdateId, 0)) |
\*             "poll" (awaiting getUpdates(lastUpdateId, 30)) |
\*             "next" (in the for loop, before its next update) |
\*             "handling" (awaiting handleMessage) |
\*             "backoff" (in the catch block, awaiting the setTimeout)
\*   offset:   the offset argument of the getUpdates call awaited
\*   batch:    the updates of the for loop not yet visited
\*   lastPoll: how the last getUpdates call of the while loop ended:
\*             "none" | "ok" | "failed"
\*   calls:    parity of the number of getUpdates calls started
\*   backoff:  the local variable backoff
LoopOff == [pc |-> "off", offset |-> 0, batch |-> << >>, lastPoll |-> "none",
            calls |-> 0, backoff |-> InitialBackoff]

\* no formatForSMS call
\* no TmuxService method is being called
NoCall == [op |-> "none", session |-> << >>, input |-> << >>, pc |-> "idle",
           result |-> "none"]

NoFormat == [input |-> [text |-> << >>, secret |-> << >>, rule |-> 0],
             maxChars |-> 0, n |-> 0, cleaned |-> << >>]

\* the poller before startPolling, with TELEGRAM_CHAT_ID one of chatIds
PollerInit(chatIds) ==
    /\ TELEGRAM_CHAT_ID \in chatIds
    /\ polling = FALSE
    /\ lastUpdateId = 0
    /\ loops = [l \in LoopIds |-> LoopOff]
    /\ updates = << >>
    /\ nextUpdateId = 1

\* the server has started, with TMUX_SESSION one of envs and
\* TELEGRAM_CHAT_ID one of chatIds
ServerInit(envs, chatIds) ==
    /\ PollerInit(chatIds)
    /\ projects = << >>
    /\ armed = ArmedAtStart
    /\ now = StartTime
    /\ TMUX_SESSION \in envs
    /\ ev = [h \in AllHandlers |-> EvIdle]
    /\ rp = RpIdle
    /\ tmuxCmds = << >>
    /\ out = NoOut
    /\ life = [p \in ProjectIds |-> LifeNone]
    /\ welcomed = [p \in ProjectIds |-> FALSE]
    /\ passedDisarmed = FALSE
    /\ limiter = [k \in LimiterKeys |-> NoWindow]
    /\ everArmed = FALSE
    /\ call = NoCall
    /\ shown = << >>
    /\ notified = [p \in ProjectIds |-> 0]

\* ... and formatForSMS is not being called
InitOf(envs, chatIds) ==
    /\ ServerInit(envs, chatIds)
    /\ fmt = NoFormat

\* the server has started, with TMUX_SESSION one of envs
InitWith(envs) == InitOf(envs, {OperatorChatId})

\* no TMUX_SESSION fallback is configured
Init == InitWith({Empty})

\* a TMUX_SESSION fallback may be configured
InitRoute == InitWith(FallbackSessions)

\* the clock advances
Tick ==
    /\ now < StartTime + MaxTicks * TickMs
    /\ now' = now + TickMs
    /\ limiter' = expire(limiter, now')
    /\ out' = NoOut
    /\ UNCHANGED <<pollVars, fmt, call, shown, notified>>
    /\ UNCHANGED <<projects, armed, TMUX_SESSION, ev, rp, tmuxCmds, life, welcomed,
                   passedDisarmed, everArmed>>

(***************************************************************************)
(* POST /api/notify: projectRateLimiter, then the handler                  *)
(***************************************************************************)
\* canNotify / recordNotification / the call of captureContext, on registry ps:
\* the registry afterwards and whether the handler goes on to the capture
RateLimitStepNoRecord(ps, isArmed, projectId, t) ==
    [projects |-> ps, proceed |-> canNotify(ps, isArmed, projectId, t)]

RateLimitStep(ps, isArmed, projectId, t) ==
    IF ~canNotify(ps, isArmed, projectId, t)
    THEN [projects |-> ps, proceed |-> FALSE]
    ELSE [projects |-> recordNotification(ps, projectId, t), proceed |-> TRUE]

\* the history of project projectId after a register call that returned isNew,
\* stored registeredAt at, and was followed by a welcome message iff welcome
LifeAfterRegister(projectId, isNew, at, welcome) ==
    [life EXCEPT ![projectId] =
        [regTrue  |-> IF isNew THEN CountUp(@.regTrue) ELSE @.regTrue,
         firstAt  |-> IF @.regTrue = 0 THEN at ELSE @.firstAt,
         welcomes |-> IF welcome THEN CountUp(@.welcomes) ELSE @.welcomes]]

\* res.sendStatus(200): the first statement of the handler, before it looks
\* at the payload
sendStatusIfNamed(payload) == IF payload.project_name = Empty THEN "400" ELSE "200"

sendStatus(payload) == "200"

\* a request arrives: the rate limiter answers 429, or the handler answers
\* 200 and runs to its first await (or its return)
EventStart(h, payload) ==
    /\ ev[h].pc = "idle"
    /\ LET hit         == increment(limiter, keyGenerator(payload), now)
           projectId   == PayloadProjectId(payload)
           sessionId   == PayloadSessionId(payload, TMUX_SESSION)
           projectName == PayloadProjectName(payload)
           reg         == register(projects, projectId, sessionId, projectName, now)
           isNew       == reg.isFirstRegistration
           at          == MapGet(reg.projects, projectId).registeredAt
           rate        == RateLimitStep(reg.projects, armed, projectId, now)
           going       == [pc |-> "capture", projectId |-> projectId,
                           sessionId |-> sessionId, projectName |-> projectName,
                           isNew |-> isNew]
           status      == sendStatus(payload)
       IN  /\ limiter' = hit.limiter
           /\ IF ~hit.admitted
              THEN \* the limiter's handler: 429, the route handler does not run
                   /\ out' = Responded(NoOut, "429", projectId)
                   /\ UNCHANGED <<projects, ev, life, welcomed, passedDisarmed>>
              ELSE IF sessionId = Empty
              THEN \* no tmux session identifier: return
                   /\ out' = Responded(Log("noSession"), status, projectId)
                   /\ UNCHANGED <<projects, ev, life, welcomed, passedDisarmed>>
              ELSE IF ~armed
              THEN \* registered, notification suppressed
                   /\ projects' = reg.projects
                   /\ life' = LifeAfterRegister(projectId, isNew, at, FALSE)
                   /\ out' = Responded(Log("suppressed"), status, projectId)
                   /\ UNCHANGED <<ev, welcomed, passedDisarmed>>
              ELSE IF isNew
              THEN \* await telegramService.sendMessage(welcomeMessage)
                   /\ projects' = reg.projects
                   /\ life' = LifeAfterRegister(projectId, isNew, at, TRUE)
                   /\ welcomed' = [welcomed EXCEPT ![projectId] = TRUE]
                   /\ out' = Responded([Msg("welcome") EXCEPT !.repeat = welcomed[projectId]],
                                       status, projectId)
                   /\ ev' = [ev EXCEPT ![h] = [going EXCEPT !.pc = "welcome"]]
                   /\ UNCHANGED passedDisarmed
              ELSE \* canNotify, recordNotification, await captureContext
                   /\ projects' = rate.projects
                   /\ life' = LifeAfterRegister(projectId, isNew, at, FALSE)
                   /\ ev' = [ev EXCEPT ![h] = IF rate.proceed THEN going ELSE EvIdle]
                   /\ passedDisarmed' = (passedDisarmed \/ (rate.proceed /\ ~armed))
                   /\ out' = Responded(IF rate.proceed THEN NoOut ELSE Log("rateLimited"),
                                       status, projectId)
                   /\ UNCHANGED welcomed
           /\ notified' = IF hit.admitted /\ sessionId # Empty /\ armed /\ ~isNew
                             /\ rate.proceed
                          THEN [notified EXCEPT ![projectId] = now]
                          ELSE notified
    /\ UNCHANGED <<pollVars, fmt, call, shown>>
    /\ UNCHANGED <<armed, now, TMUX_SESSION, rp, tmuxCmds, everArmed>>

\* the welcome message was sent: canNotify, recordNotification, await captureContext
EventAfterWelcome(h) ==
    /\ ev[h].pc = "welcome"
    /\ LET rate == RateLimitStep(projects, armed, ev[h].projectId, now)
       IN  /\ projects' = rate.projects
           /\ ev' = [ev EXCEPT ![h] = IF rate.proceed THEN [@ EXCEPT !.pc = "capture"]
                                      ELSE EvIdle]
           /\ passedDisarmed' = (passedDisarmed \/ (rate.proceed /\ ~armed))
           /\ out' = IF rate.proceed THEN NoOut ELSE Log("rateLimited")
           /\ notified' = IF rate.proceed
                          THEN [notified EXCEPT ![ev[h].projectId] = now]
                          ELSE notified
    /\ UNCHANGED <<pollVars, fmt, call, shown>>
    /\ UNCHANGED <<armed, now, TMUX_SESSION, rp, tmuxCmds, life, welcomed, limiter,
                   everArmed>>

\* String(d) of one decimal digit
DigitChar(d) ==
    CASE d = 0 -> "0" [] d = 1 -> "1" [] d = 2 -> "2" [] d = 3 -> "3" [] d = 4 -> "4"
      [] d = 5 -> "5" [] d = 6 -> "6" [] d = 7 -> "7" [] d = 8 -> "8" [] d = 9 -> "9"

\* `${n}` of a non-negative integer
RECURSIVE NumberToString(_)
NumberToString(n) ==
    IF n < 10 THEN <<DigitChar(n)>>
    ELSE NumberToString(n \div 10) \o <<DigitChar(n % 10)>>

\* lines.join('\n')
RECURSIVE join(_)
join(lines) ==
    IF lines = << >> THEN Empty
    ELSE IF Len(lines) = 1 THEN lines[1]
    ELSE lines[1] \o <<"\n">> \o join(Tail(lines))

\* a context that is never the placeholder
ContextNeverPlaceholder(session, captured) ==
    [of |-> session, placeholder |-> FALSE]

\* what captureContext gave for session, or the placeholder naming it
Context(session, captured) ==
    [of |-> session, placeholder |-> ~captured]

\* formatForMessage(context, maxLength): the context, cleaned and cut to maxLength
FormattedContext(context, maxLength) ==
    [of |-> context.of, placeholder |-> context.placeholder, maxLength |-> maxLength]

\* activeProjects.map((p, i) => `[${i + 1}] ${p.projectName}`) with every
\* entry numbered from 0
projectListFromZero(activeProjects) ==
    [i \in 1..Len(activeProjects) |->
        <<"[">> \o NumberToString(i - 1) \o <<"]", " ">> \o activeProjects[i].projectName]

\* activeProjects.map((p, i) => `[${i + 1}] ${p.projectName}`): i counts from
\* 0 in the code and from 1 here
projectList(activeProjects) ==
    [i \in 1..Len(activeProjects) |->
        <<"[">> \o NumberToString(i) \o <<"]", " ">> \o activeProjects[i].projectName]

\* the message built after the capture, from the registry ps:
\* the single-project template, or the numbered list of every active project
PromptMessage(ps, projectName, context) ==
    LET activeProjects == getActiveProjects(ps)
    IN  IF Len(activeProjects) = 1
        THEN [template |-> "single", list |-> Empty, latest |-> Empty,
              context |-> FormattedContext(context, 3500)]
        ELSE [template |-> "numbered",
              list |-> join(projectList(activeProjects)),
              latest |-> projectName,
              context |-> FormattedContext(context, 1500)]

\* the project ids behind the numbers [1], [2], ... of a prompt built from
\* registry ps; the single-project template shows no numbers
ShownBy(ps) ==
    IF Len(ps) = 1 THEN << >> ELSE [i \in 1..Len(ps) |-> ps[i].key]

\* captureContext settled (captured, or it threw and the placeholder is used):
\* getActiveProjects, format, await telegramService.sendMessage(message)
EventCaptured(h) ==
    /\ ev[h].pc = "capture"
    /\ \E captured \in BOOLEAN :
          /\ captured => validateSessionName(ev[h].sessionId)
          /\ out' = [Msg("prompt") EXCEPT
                        !.body = PromptMessage(projects, ev[h].projectName,
                                               Context(ev[h].sessionId, captured))]
    /\ ev' = [ev EXCEPT ![h] = EvIdle]
    /\ shown' = ShownBy(projects)
    /\ UNCHANGED <<pollVars, fmt, call, notified>>
    /\ UNCHANGED <<projects, armed, now, TMUX_SESSION, rp, tmuxCmds, life, welcomed,
                   passedDisarmed, limiter, everArmed>>

(***************************************************************************)
(* handleMessage                                                           *)
(***************************************************************************)
Decision(kind, sessionId, projectName, response, number) ==
    [kind |-> kind, sessionId |-> sessionId, projectName |-> projectName,
     response |-> response, number |-> number]

\* activeProjects.length === 1: a bare reply goes to the only project
SoleProjectOrFirst(n) == n >= 1

SoleProject(n) == n = 1

\* handleMessage from its start to the choice of the session (or the early
\* return), on registry ps with TMUX_SESSION = env.  kind is
\*   "empty" | "on" | "off" | "invalidNumber" | "noProjects" | "ambiguous" | "route"
\* and number is the number the reply named (0: none)
routeMessage(ps, text, env) ==
    LET userInput      == trim(text)
        upperInput     == toUpperCase(userInput)
        parsed         == parseNumberedResponse(userInput)
        project        == getByIndex(ps, parsed.projectIndex)
        activeProjects == getActiveProjects(ps)
    IN  IF userInput = Empty THEN Decision("empty", Empty, Empty, Empty, 0)
        ELSE IF upperInput = ON THEN Decision("on", Empty, Empty, Empty, 0)
        ELSE IF upperInput = OFF THEN Decision("off", Empty, Empty, Empty, 0)
        ELSE IF parsed.hasIndex
        THEN IF project = Undefined
             THEN Decision("invalidNumber", Empty, Empty, Empty, parsed.projectIndex + 1)
             ELSE Decision("route", project.sessionId, project.projectName,
                           parsed.response, parsed.projectIndex + 1)
        ELSE IF Len(activeProjects) = 0
        THEN IF env = Empty
             THEN Decision("noProjects", Empty, Empty, Empty, 0)
             ELSE Decision("route", env, env, parsed.response, 0)
        ELSE IF SoleProject(Len(activeProjects))
        THEN Decision("route", activeProjects[1].sessionId,
                      activeProjects[1].projectName, parsed.response, 0)
        ELSE Decision("ambiguous", Empty, Empty, Empty, 0)

\* the key of the registry entry a "route" decision d was taken from
ResolvedKey(ps, d) ==
    IF d.number >= 1 THEN ps[d.number].key
    ELSE IF Len(ps) >= 1 THEN ps[1].key
    ELSE Empty

\* tmux commands (execFile argument vectors)
HasSessionCmd(session) ==
    [cmd |-> "has-session", target |-> session, literal |-> FALSE, keys |-> Empty]

\* send-keys -t session -l input
LiteralCmd(session, input) ==
    [cmd |-> "send-keys", target |-> session, literal |-> TRUE, keys |-> input]

\* send-keys -t session Enter
EnterCmd(session) ==
    [cmd |-> "send-keys", target |-> session, literal |-> FALSE, keys |-> <<"Enter">>]

\* handleMessage(text) up to its first await (or its return)
handleMessage(text) ==
    /\ rp.pc = "idle"
    /\ LET d == routeMessage(projects, text, TMUX_SESSION)
           routed == [pc |-> "hasSession", sessionId |-> d.sessionId,
                      projectName |-> d.projectName, response |-> d.response,
                      number |-> d.number, resolved |-> ResolvedKey(projects, d),
                      error |-> ""]
       IN  CASE d.kind = "empty" ->
                  /\ out' = NoOut
                  /\ UNCHANGED <<armed, rp, tmuxCmds, everArmed>>
             [] d.kind = "on" ->
                  /\ armed' = TRUE
                  /\ everArmed' = TRUE
                  /\ out' = Msg("armed")
                  /\ UNCHANGED <<rp, tmuxCmds>>
             [] d.kind = "off" ->
                  /\ armed' = FALSE
                  /\ out' = Msg("disarmed")
                  /\ UNCHANGED <<rp, tmuxCmds, everArmed>>
             [] d.kind \in {"invalidNumber", "noProjects", "ambiguous"} ->
                  /\ out' = Msg(d.kind)
                  /\ UNCHANGED <<armed, rp, tmuxCmds, everArmed>>
             [] d.kind = "route" ->
                  \* await tmuxService.hasSession(sessionId)
                  /\ out' = NoOut
                  /\ UNCHANGED <<armed, everArmed>>
                  /\ IF validateSessionName(d.sessionId)
                     THEN /\ rp' = routed
                          /\ tmuxCmds' = <<HasSessionCmd(d.sessionId)>>
                     ELSE \* validateSessionName throws
                          /\ rp' = [routed EXCEPT !.pc = "rejected",
                                                  !.error = "InvalidName"]
                          /\ UNCHANGED tmuxCmds
    /\ UNCHANGED <<projects, now, TMUX_SESSION, ev, life, welcomed, passedDisarmed,
                   limiter, fmt, call, shown, notified>>

\* a message of the operator arrives: the poll loop calls handleMessage
ReplyStart(text) ==
    /\ handleMessage(text)
    /\ UNCHANGED pollVars

\* the command sendKeys issues once the literal text was accepted
AfterLiteral(session, input) == <<EnterCmd(session)>>

\* the command sendKeys issues once the literal send-keys failed: none
AfterLiteralFailed(session, input) == << >>

\* the command sendKeys issues to deliver input once the session exists
DeliverWithEnter(session, input) ==
    <<[cmd |-> "send-keys", target |-> session, literal |-> FALSE,
       keys |-> input \o <<"Enter">>]>>

Deliver(session, input) == <<LiteralCmd(session, input)>>

\* hasSession settled.  Session missing: the error message is sent.  Session
\* there: sendKeys is called; its own hasSession settles, and it throws or
\* sends the literal text.
ReplyHasSession ==
    /\ rp.pc = "hasSession"
    /\ \E sessionExists \in BOOLEAN, exists \in BOOLEAN :
          IF ~sessionExists
          THEN /\ exists
               /\ out' = Msg("sessionNotFound")
               /\ rp' = [rp EXCEPT !.pc = "cleanup"]
               /\ UNCHANGED tmuxCmds
          ELSE IF ~exists
          THEN /\ rp' = [rp EXCEPT !.pc = "rejected", !.error = "NoSession"]
               /\ tmuxCmds' = Append(tmuxCmds, HasSessionCmd(rp.sessionId))
               /\ out' = NoOut
          ELSE /\ rp' = [rp EXCEPT !.pc = "literal"]
               /\ tmuxCmds' = Append(tmuxCmds, HasSessionCmd(rp.sessionId))
                                 \o Deliver(rp.sessionId, rp.response)
               /\ out' = NoOut
    /\ UNCHANGED <<pollVars, fmt, call, shown, notified>>
    /\ UNCHANGED <<projects, armed, now, TMUX_SESSION, ev, life, welcomed, passedDisarmed,
                   limiter, everArmed>>

\* the error message was sent: findProjectIdBySession, remove, return
ReplyCleanup ==
    /\ rp.pc = "cleanup"
    /\ LET staleProjectId == findProjectIdBySession(projects, rp.sessionId)
       IN  IF staleProjectId # Empty
           THEN /\ projects' = remove(projects, staleProjectId).projects
                /\ life' = [life EXCEPT ![staleProjectId] = LifeNone]
           ELSE UNCHANGED <<projects, life>>
    /\ rp' = RpIdle
    /\ tmuxCmds' = << >>
    /\ out' = NoOut
    /\ UNCHANGED <<pollVars, fmt, call, shown, notified>>
    /\ UNCHANGED <<armed, now, TMUX_SESSION, ev, welcomed, passedDisarmed, limiter,
                   everArmed>>

\* the literal send-keys settled: sendKeys throws, or sends Enter
ReplyLiteral ==
    /\ rp.pc = "literal"
    /\ \E ok \in BOOLEAN :
          IF ~ok
          THEN /\ rp' = [rp EXCEPT !.pc = "rejected", !.error = "literal"]
               /\ tmuxCmds' = tmuxCmds \o AfterLiteralFailed(rp.sessionId, rp.response)
          ELSE /\ rp' = [rp EXCEPT !.pc = "enter"]
               /\ tmuxCmds' = tmuxCmds \o AfterLiteral(rp.sessionId, rp.response)
    /\ out' = NoOut
    /\ UNCHANGED <<pollVars, fmt, call, shown, notified>>
    /\ UNCHANGED <<projects, armed, now, TMUX_SESSION, ev, life, welcomed, passedDisarmed,
                   limiter, everArmed>>

\* the Enter send-keys settled: sendKeys throws, or handleMessage returns
ReplyEnter ==
    /\ rp.pc = "enter"
    /\ \E ok \in BOOLEAN :
          IF ~ok
          THEN /\ rp' = [rp EXCEPT !.pc = "rejected", !.error = "enter"]
               /\ UNCHANGED tmuxCmds
          ELSE /\ rp' = RpIdle
               /\ tmuxCmds' = << >>
    /\ out' = NoOut
    /\ UNCHANGED <<pollVars, fmt, call, shown, notified>>
    /\ UNCHANGED <<projects, armed, now, TMUX_SESSION, ev, life, welcomed, passedDisarmed,
                   limiter, everArmed>>

\* handleMessage rejected: the poll loop catches and logs the error
ReplyRejected ==
    /\ rp.pc = "rejected"
    /\ rp' = RpIdle
    /\ tmuxCmds' = << >>
    /\ out' = NoOut
    /\ UNCHANGED <<pollVars, fmt, call, shown, notified>>
    /\ UNCHANGED <<projects, armed, now, TMUX_SESSION, ev, life, welcomed, passedDisarmed,
                   limiter, everArmed>>

(***************************************************************************)
(* The Telegram poller: startPolling, stopPolling, pollLoop, and the        *)
(* Telegram server behind TelegramService.getUpdates                       *)
(***************************************************************************)
\* the updates the server still holds once a getUpdates call with this
\* offset has confirmed the earlier ones; offset 0: no offset was sent
Unconfirmed(us, offset) == SelectSeq(us, LAMBDA u : u.update_id >= offset)

\* String(update.message?.chat.id) !== String(authorizedChatId)
UnauthorizedNever(update, authorizedChatId) == FALSE

Unauthorized(update, authorizedChatId) ==
    NumberToString(update.chat) # authorizedChatId

\* while (polling): the next getUpdates call is started, or pollLoop returns
whilePolling(loop, isPolling, offset) ==
    IF isPolling
    THEN [loop EXCEPT !.pc = "poll", !.offset = offset, !.batch = << >>,
                      !.calls = 1 - @]
    ELSE LoopOff

\* the for loop goes on with the updates left, or ends: backoff = 1000
forUpdates(loop, rest, isPolling, offset) ==
    IF rest # << >>
    THEN [loop EXCEPT !.pc = "next", !.batch = rest]
    ELSE whilePolling([loop EXCEPT !.backoff = InitialBackoff], isPolling, offset)

\* somebody sends the bot a message
Arrive(chat, text) ==
    /\ nextUpdateId <= MaxUpdates
    /\ updates' = Append(updates, [update_id |-> nextUpdateId, chat |-> chat,
                                   text |-> text])
    /\ nextUpdateId' = nextUpdateId + 1
    /\ out' = NoOut
    /\ UNCHANGED <<TELEGRAM_CHAT_ID, polling, lastUpdateId, loops>>
    /\ UNCHANGED serverVars

\* startPolling(): pollLoop() runs up to its first await
startPolling ==
    /\ IF polling
       THEN UNCHANGED <<polling, loops>>
       ELSE /\ polling' = TRUE
            /\ \E l \in LoopIds :
                  /\ loops[l].pc = "off"
                  /\ \A k \in LoopIds : k < l => loops[k].pc # "off"
                  /\ loops' = [loops EXCEPT ![l] =
                                  [LoopOff EXCEPT !.pc = "flush",
                                                  !.offset = lastUpdateId,
                                                  !.calls = 1 - loops[l].calls]]
    /\ out' = NoOut
    /\ UNCHANGED <<TELEGRAM_CHAT_ID, lastUpdateId, updates, nextUpdateId>>
    /\ UNCHANGED serverVars

\* stopPolling()
stopPolling ==
    /\ polling' = FALSE
    /\ out' = NoOut
    /\ UNCHANGED <<TELEGRAM_CHAT_ID, lastUpdateId, loops, updates, nextUpdateId>>
    /\ UNCHANGED serverVars

\* a flush that treats what it got like the result of a poll: the chat id
\* is read and the for loop is entered with the stale updates
LoopFlushedAsPolled(l) ==
    /\ loops[l].pc = "flush"
    /\ \E ok \in BOOLEAN :
          LET stale == IF ok THEN Unconfirmed(updates, loops[l].offset) ELSE << >>
          IN  /\ updates' = IF ok THEN stale ELSE updates
              /\ IF TELEGRAM_CHAT_ID = Empty
                 THEN /\ polling' = FALSE
                      /\ loops' = [loops EXCEPT ![l] = LoopOff]
                 ELSE /\ UNCHANGED polling
                      /\ loops' = [loops EXCEPT ![l] =
                                      forUpdates(loops[l], stale, polling,
                                                 lastUpdateId)]
    /\ out' = NoOut
    /\ UNCHANGED <<TELEGRAM_CHAT_ID, lastUpdateId, nextUpdateId>>
    /\ UNCHANGED serverVars

\* the flush getUpdates settled (it returns [] when it failed): the stale
\* updates are skipped, the chat id is read, the while loop is entered
LoopFlushed(l) ==
    /\ loops[l].pc = "flush"
    /\ \E ok \in BOOLEAN :
          LET stale == IF ok THEN Unconfirmed(updates, loops[l].offset) ELSE << >>
              last  == IF Len(stale) > 0
                       THEN stale[Len(stale)].update_id + 1
                       ELSE lastUpdateId
          IN  /\ updates' = IF ok THEN stale ELSE updates
              /\ lastUpdateId' = last
              /\ IF TELEGRAM_CHAT_ID = Empty
                 THEN /\ polling' = FALSE
                      /\ loops' = [loops EXCEPT ![l] = LoopOff]
                 ELSE /\ UNCHANGED polling
                      /\ loops' = [loops EXCEPT ![l] =
                                      whilePolling(loops[l], polling, last)]
    /\ out' = NoOut
    /\ UNCHANGED <<TELEGRAM_CHAT_ID, nextUpdateId>>
    /\ UNCHANGED serverVars

\* the getUpdates call of the while loop settled (it returns [] when it
\* failed): break, or the for loop is entered
LoopPolled(l) ==
    /\ loops[l].pc = "poll"
    /\ \E ok \in BOOLEAN :
          LET result == IF ok THEN Unconfirmed(updates, loops[l].offset) ELSE << >>
              polled == [loops[l] EXCEPT !.lastPoll = IF ok THEN "ok" ELSE "failed"]
          IN  /\ updates' = IF ok THEN result ELSE updates
              /\ loops' = [loops EXCEPT ![l] =
                              IF ~polling THEN LoopOff
                              ELSE forUpdates(polled, result, polling, lastUpdateId)]
    /\ out' = NoOut
    /\ UNCHANGED <<TELEGRAM_CHAT_ID, polling, lastUpdateId, nextUpdateId>>
    /\ UNCHANGED serverVars

\* one pass of the for loop, up to the await of handleMessage or to the
\* next pass
LoopNext(l) ==
    /\ loops[l].pc = "next"
    /\ LET update == Head(loops[l].batch)
           rest   == Tail(loops[l].batch)
       IN  /\ lastUpdateId' = update.update_id + 1
           /\ IF update.chat = NoChat
              THEN \* update.message?.chat.id throws; the catch block of the
                   \* while loop awaits the backoff timer
                   /\ loops' = [loops EXCEPT ![l] = [@ EXCEPT !.pc = "backoff",
                                                              !.batch = << >>]]
                   /\ out' = NoOut
                   /\ UNCHANGED serverVars
              ELSE IF Unauthorized(update, TELEGRAM_CHAT_ID) \/ update.text = Empty
              THEN /\ loops' = [loops EXCEPT ![l] =
                                   forUpdates(loops[l], rest, polling,
                                              update.update_id + 1)]
                   /\ out' = NoOut
                   /\ UNCHANGED serverVars
              ELSE /\ handleMessage(update.text)
                   /\ loops' = [loops EXCEPT ![l] = [@ EXCEPT !.pc = "handling",
                                                              !.batch = rest]]
    /\ UNCHANGED <<TELEGRAM_CHAT_ID, polling, updates, nextUpdateId>>

\* handleMessage settled: the for loop goes on
LoopHandled(l) ==
    /\ loops[l].pc = "handling"
    /\ rp.pc = "idle"
    /\ loops' = [loops EXCEPT ![l] =
                    forUpdates(loops[l], loops[l].batch, polling, lastUpdateId)]
    /\ out' = NoOut
    /\ UNCHANGED <<TELEGRAM_CHAT_ID, polling, lastUpdateId, updates, nextUpdateId>>
    /\ UNCHANGED serverVars

\* a doubling without the ceiling
nextBackoffUncapped(backoff) == backoff * 2

\* Math.min(backoff * 2, MAX_BACKOFF)
nextBackoff(backoff) ==
    IF backoff * 2 < MAX_BACKOFF THEN backoff * 2 ELSE MAX_BACKOFF

\* the backoff timer fired: backoff is doubled up to MAX_BACKOFF and the
\* while loop goes on
LoopSlept(l) ==
    /\ loops[l].pc = "backoff"
    /\ loops' = [loops EXCEPT ![l] =
                    whilePolling([loops[l] EXCEPT !.backoff = nextBackoff(@)],
                                 polling, lastUpdateId)]
    /\ out' = NoOut
    /\ UNCHANGED <<TELEGRAM_CHAT_ID, polling, lastUpdateId, updates, nextUpdateId>>
    /\ UNCHANGED serverVars

\* an update arrives whose message carries no chat
ArriveMalformed ==
    /\ nextUpdateId <= MaxMalformed
    /\ updates' = Append(updates, [update_id |-> nextUpdateId, chat |-> NoChat,
                                   text |-> ON])
    /\ nextUpdateId' = nextUpdateId + 1
    /\ out' = NoOut
    /\ UNCHANGED <<TELEGRAM_CHAT_ID, polling, lastUpdateId, loops>>
    /\ UNCHANGED serverVars

\* the steps of the /api/notify handlers
EventStep ==
    \/ \E h \in Handlers, payload \in Payloads : EventStart(h, payload)
    \/ \E h \in Handlers : EventAfterWelcome(h)
    \/ \E h \in Handlers : EventCaptured(h)

\* the steps of a handleMessage call after its start
ReplyStep ==
    \/ ReplyHasSession
    \/ ReplyCleanup
    \/ ReplyLiteral
    \/ ReplyEnter
    \/ ReplyRejected

\* the notification flow under the clock, with the control commands
Next ==
    \/ Tick
    \/ EventStep
    \/ \E text \in NotifyTexts : ReplyStart(text)
    \/ ReplyStep

Spec == Init /\ [][Next]_vars

\* the reply flow with every text, the clock standing still
NextRoute ==
    \/ EventStep
    \/ \E text \in Texts : ReplyStart(text)
    \/ ReplyStep

SpecRoute == InitRoute /\ [][NextRoute]_vars

\* two requests for one project side by side, under the clock, with the
\* control commands
EventStep2 ==
    \/ \E h \in AllHandlers, payload \in ThrottlePayloads : EventStart(h, payload)
    \/ \E h \in AllHandlers : EventAfterWelcome(h)
    \/ \E h \in AllHandlers : EventCaptured(h)

NextThrottle ==
    \/ Tick
    \/ EventStep2
    \/ \E text \in ControlTexts : ReplyStart(text)

SpecThrottle == Init /\ [][NextThrottle]_vars

\* the steps of the pollLoop() calls
LoopStep ==
    \/ \E l \in LoopIds : LoopFlushed(l)
    \/ \E l \in LoopIds : LoopPolled(l)
    \/ \E l \in LoopIds : LoopNext(l)
    \/ \E l \in LoopIds : LoopHandled(l)

\* TMUX_SESSION and TELEGRAM_CHAT_ID may be set or not
InitPoller == InitOf(FallbackSessions, ChatIdSettings)

\* the poller with the Telegram server and the callers of startPolling and
\* stopPolling, the clock standing still
NextPoller ==
    \/ \E chat \in {OperatorChat, StrangerChat}, text \in UpdateTexts : Arrive(chat, text)
    \/ startPolling
    \/ stopPolling
    \/ LoopStep
    \/ ReplyStep

SpecPoller == InitPoller /\ [][NextPoller]_vars

\* the events of one project
InboundPayloads ==
    {payload \in Payloads : payload.project_id = p1 /\ payload.tmux_session = sA}

\* the poller started and never stopped, beside the agent events of one
\* project, the clock standing still
NextInbound ==
    \/ \E chat \in {OperatorChat, StrangerChat}, text \in UpdateTexts : Arrive(chat, text)
    \/ startPolling
    \/ LoopStep
    \/ ReplyStep
    \/ \E payload \in InboundPayloads : EventStart("h1", payload)
    \/ EventAfterWelcome("h1")
    \/ EventCaptured("h1")

SpecInbound == InitPoller /\ [][NextInbound]_vars

\* the poller started and never stopped, with ON messages of the operator,
\* messages without a chat, and getUpdates calls that fail
NextBackoff ==
    \/ Arrive(OperatorChat, ON)
    \/ ArriveMalformed
    \/ startPolling
    \/ LoopStep
    \/ \E l \in LoopIds : LoopSlept(l)

SpecBackoff == InitOf({Empty}, {OperatorChatId}) /\ [][NextBackoff]_vars

\* formatForSMS(input.text, maxChars) is called on one of the terminal texts
InitRedact ==
    /\ ServerInit({Empty}, {OperatorChatId})
    /\ fmt \in {[input |-> input, maxChars |-> maxChars, n |-> 0,
                  cleaned |-> input.text] :
                    input \in RedactInputs, maxChars \in 0..MaxChars}

\* the next statement of formatForSMS
FormatStep ==
    /\ fmt # NoFormat
    /\ fmt.n < Len(Stages)
    /\ fmt' = [fmt EXCEPT !.n = @ + 1,
                          !.cleaned = applyStage(Stages[fmt.n + 1], fmt.cleaned,
                                                 fmt.maxChars)]
    /\ UNCHANGED <<projects, armed, now, TMUX_SESSION, ev, rp, tmuxCmds, life,
                   welcomed, passedDisarmed, limiter, everArmed>>
    /\ UNCHANGED <<out, pollVars, call, shown, notified>>

NextRedact == FormatStep

SpecRedact == InitRedact /\ [][NextRedact]_vars

\* the registry by itself: its operations called in any order, for three
\* project identifiers, under the clock
p3 == <<"p", "3">>

RegistryIds == ProjectIds \cup {p3}

RegistrySessions == {sA, sB}

RegistryFrame ==
    UNCHANGED <<TMUX_SESSION, ev, rp, tmuxCmds, life, welcomed, passedDisarmed,
                limiter, fmt, call, shown, notified, now, pollVars>>

RegistryRegister(projectId, sessionId) ==
    /\ projects' = register(projects, projectId, sessionId, projectId, now).projects
    /\ out' = NoOut
    /\ UNCHANGED <<armed, everArmed>>
    /\ RegistryFrame

RegistryRecordNotification(projectId) ==
    /\ projects' = recordNotification(projects, projectId, now)
    /\ out' = NoOut
    /\ UNCHANGED <<armed, everArmed>>
    /\ RegistryFrame

RegistrySetArmed(value) ==
    /\ armed' = value
    /\ everArmed' = (everArmed \/ value)
    /\ out' = NoOut
    /\ UNCHANGED projects
    /\ RegistryFrame

RegistryRemove(projectId) ==
    /\ projects' = remove(projects, projectId).projects
    /\ out' = NoOut
    /\ UNCHANGED <<armed, everArmed>>
    /\ RegistryFrame

NextRegistry ==
    \/ Tick
    \/ \E projectId \in RegistryIds, sessionId \in RegistrySessions :
          RegistryRegister(projectId, sessionId)
    \/ \E projectId \in RegistryIds : RegistryRecordNotification(projectId)
    \/ \E value \in BOOLEAN : RegistrySetArmed(value)
    \/ \E projectId \in RegistryIds : RegistryRemove(projectId)

SpecRegistry == Init /\ [][NextRegistry]_vars

\* the TmuxService by itself: hasSession, captureContext and sendKeys called
\* with any target, each followed from await to await
TmuxTargets ==
    { sA, sB, sF, <<"m", "y", "-", "s", "_", "1">>, sBad, Empty, <<"a", " ", "b">>,
      <<"s", "A", ":", "1">>, <<"$", "(", "x", ")">>, <<"s", EAcute>> }

TmuxInputs == { <<"Y">>, <<"C", "-", "c">>, <<"a", "\n", "b">> }

TmuxOps == {"hasSession", "captureContext", "sendKeys"}

\* capture-pane -t session -p -S -lines
CaptureCmd(session) ==
    [cmd |-> "capture-pane", target |-> session, literal |-> FALSE, keys |-> Empty]

TmuxFrame ==
    UNCHANGED <<projects, armed, now, TMUX_SESSION, ev, rp, out, life, welcomed,
                passedDisarmed, limiter, everArmed, fmt, shown, notified, pollVars>>

\* a method is called: validateSessionName throws, or the first tmux command
\* is issued (has-session, by hasSession itself or by the hasSession call of
\* captureContext and sendKeys)
TmuxCall(op, session, input) ==
    /\ call.pc = "idle"
    /\ IF validateSessionName(session)
       THEN /\ call' = [op |-> op, session |-> session, input |-> input,
                        pc |-> "has", result |-> "none"]
            /\ tmuxCmds' = <<HasSessionCmd(session)>>
       ELSE /\ call' = [op |-> op, session |-> session, input |-> input,
                        pc |-> "thrown", result |-> "InvalidTarget"]
            /\ tmuxCmds' = << >>
    /\ TmuxFrame

\* has-session settled
TmuxHasSettled ==
    /\ call.pc = "has"
    /\ \E exists \in BOOLEAN :
          IF call.op = "hasSession"
          THEN /\ call' = [call EXCEPT !.pc = "returned",
                                       !.result = IF exists THEN "true" ELSE "false"]
               /\ UNCHANGED tmuxCmds
          ELSE IF ~exists
          THEN /\ call' = [call EXCEPT !.pc = "thrown", !.result = "NoSession"]
               /\ UNCHANGED tmuxCmds
          ELSE IF call.op = "captureContext"
          THEN /\ call' = [call EXCEPT !.pc = "capture"]
               /\ tmuxCmds' = Append(tmuxCmds, CaptureCmd(call.session))
          ELSE /\ call' = [call EXCEPT !.pc = "literal"]
               /\ tmuxCmds' = Append(tmuxCmds, LiteralCmd(call.session, call.input))
    /\ TmuxFrame

\* capture-pane settled
TmuxCaptureSettled ==
    /\ call.pc = "capture"
    /\ \E ok \in BOOLEAN :
          call' = IF ok THEN [call EXCEPT !.pc = "returned", !.result = "stdout"]
                  ELSE [call EXCEPT !.pc = "thrown", !.result = "failed"]
    /\ UNCHANGED tmuxCmds
    /\ TmuxFrame

\* send-keys -l settled
TmuxLiteralSettled ==
    /\ call.pc = "literal"
    /\ \E ok \in BOOLEAN :
          IF ok
          THEN /\ call' = [call EXCEPT !.pc = "enter"]
               /\ tmuxCmds' = Append(tmuxCmds, EnterCmd(call.session))
          ELSE /\ call' = [call EXCEPT !.pc = "thrown", !.result = "failed"]
               /\ UNCHANGED tmuxCmds
    /\ TmuxFrame

\* send-keys Enter settled
TmuxEnterSettled ==
    /\ call.pc = "enter"
    /\ \E ok \in BOOLEAN :
          call' = IF ok THEN [call EXCEPT !.pc = "returned", !.result = "void"]
                  ELSE [call EXCEPT !.pc = "thrown", !.result = "failed"]
    /\ UNCHANGED tmuxCmds
    /\ TmuxFrame

\* the caller has the result
TmuxDone ==
    /\ call.pc \in {"returned", "thrown"}
    /\ call' = NoCall
    /\ tmuxCmds' = << >>
    /\ TmuxFrame

NextTmux ==
    \/ \E op \in TmuxOps, session \in TmuxTargets, input \in TmuxInputs :
          TmuxCall(op, session, IF op = "sendKeys" THEN input ELSE Empty)
    \/ TmuxHasSettled
    \/ TmuxCaptureSettled
    \/ TmuxLiteralSettled
    \/ TmuxEnterSettled
    \/ TmuxDone

SpecTmux == Init /\ [][NextTmux]_vars

\* hook payloads of two projects in the older form, which carries session_id
\* and no project_id, and of one of them with its project_id
KeyPayloads ==
    { [project_id |-> Empty, session_id |-> p1, tmux_session |-> sA, project_name |-> alpha],
      [project_id |-> Empty, session_id |-> p2, tmux_session |-> sB, project_name |-> beta],
      [project_id |-> p2, session_id |-> Empty, tmux_session |-> sB, project_name |-> beta] }

\* the notification flow for these payloads, under the clock, with the
\* control commands; no reply is relayed, so no session is ever removed
NextKeys ==
    \/ Tick
    \/ \E h \in Handlers, payload \in KeyPayloads : EventStart(h, payload)
    \/ \E h \in Handlers : EventAfterWelcome(h)
    \/ \E h \in Handlers : EventCaptured(h)
    \/ \E text \in ControlTexts : ReplyStart(text)

SpecKeys == Init /\ [][NextKeys]_vars

\* the waits that end in bounded time: getUpdates aborts 10 s after its
\* long-poll timeout, sendMessage gives up after 5 s, and the code between
\* two awaits runs to its end
LoopFairness ==
    \A l \in LoopIds :
        WF_vars(LoopFlushed(l) \/ LoopPolled(l) \/ LoopNext(l) \/ LoopHandled(l))

SendFairness == WF_vars(ReplyCleanup \/ ReplyRejected)

\* the tmux commands (execFile without a timeout) settle as well
TmuxFairness == WF_vars(ReplyHasSession \/ ReplyLiteral \/ ReplyEnter)

\* the poller where every wait that is bounded in the code ends
SpecPollerFair == SpecPoller /\ LoopFairness /\ SendFairness

\* the welcome sendMessage of a /api/notify handler gives up after 5 s
WelcomeFairness == \A h \in Handlers : WF_vars(EventAfterWelcome(h))

\* captureContext (execFile without a timeout) settles as well
CaptureFairness == \A h \in Handlers : WF_vars(EventCaptured(h))

\* the notification flow where every wait that is bounded in the code ends
SpecFair == Spec /\ WelcomeFairness /\ SendFairness

(***************************************************************************)
(* Properties                                                              *)
(***************************************************************************)
\* the send-keys commands among the tmux commands of the call in flight
SendKeysCmds == SelectSeq(tmuxCmds, LAMBDA c : c.cmd = "send-keys")

\* C1: whenever a welcome or prompt notification is handed to the messaging
\* channel, isArmed() is true at that moment (out is what the step into this
\* state handed over; no step that sends a notification changes armed)
C1_SentOnlyWhileArmed == out.msg \in {"welcome", "prompt"} => armed

\* C2: sendKeys issues one literal send-keys carrying exactly the payload,
\* then one separate non-literal send-keys carrying only Enter, to the same
\* target, in that order; nothing before the literal one was issued, and no
\* Enter if the literal one failed
C2_LiteralThenSubmit ==
    LET literal == [cmd |-> "send-keys", target |-> rp.sessionId, literal |-> TRUE,
                    keys |-> rp.response]
        submit  == [cmd |-> "send-keys", target |-> rp.sessionId, literal |-> FALSE,
                    keys |-> <<"Enter">>]
    IN  /\ rp.pc \in {"idle", "hasSession", "cleanup"} => SendKeysCmds = << >>
        /\ (rp.pc = "rejected" /\ rp.error \in {"InvalidName", "NoSession"})
              => SendKeysCmds = << >>
        /\ (rp.pc = "literal" \/ (rp.pc = "rejected" /\ rp.error = "literal"))
              => SendKeysCmds = <<literal>>
        /\ (rp.pc = "enter" \/ (rp.pc = "rejected" /\ rp.error = "enter"))
              => SendKeysCmds = <<literal, submit>>

\* C2 witness: a payload containing a line terminator was delivered and submitted
C2_Witness ==
    /\ rp.pc = "enter"
    /\ \E i \in 1..Len(rp.response) : rp.response[i] = "\n"
    /\ Len(SendKeysCmds) = 2

\* C3: the reserved tokens ON and OFF (case-insensitive) are never delivered
\* as a payload to a terminal session
C3_ReservedNeverDelivered ==
    \A i \in 1..Len(SendKeysCmds) :
        SendKeysCmds[i].literal =>
            toUpperCase(trim(SendKeysCmds[i].keys)) \notin {ON, OFF}

\* C4, the decision: with exactly one active session a bare reply is routed
\* to it with its trimmed text as payload; with two or more it is ambiguous
C4_Decision ==
    \A t \in BareTexts :
        LET d == routeMessage(projects, t, TMUX_SESSION)
        IN  /\ Len(projects) = 1 =>
                  /\ d.kind = "route"
                  /\ d.sessionId = projects[1].value.sessionId
                  /\ d.response = <<"Y">>
            /\ Len(projects) >= 2 => d.kind = "ambiguous"

\* C4, the step: a bare reply that starts a relay was taken with exactly one
\* active session and goes to that session; the step that answers with the
\* ambiguous-reply error was taken with two or more, relays nothing and
\* leaves no call in flight
C4_Step ==
    /\ (rp.pc = "idle" /\ rp'.pc # "idle" /\ rp'.number = 0 /\ Len(projects) >= 1)
          => /\ Len(projects) = 1
             /\ rp'.sessionId = projects[1].value.sessionId
             /\ rp'.resolved = projects[1].key
    /\ out'.msg = "ambiguous"
          => /\ Len(projects) >= 2
             /\ rp' = RpIdle
             /\ tmuxCmds' = << >>
             /\ projects' = projects

\* every tmux command of a call goes to the session the reply was routed to
AllToRoutedSession ==
    \A i \in 1..Len(tmuxCmds) : tmuxCmds[i].target = rp.sessionId

\* C4: a bare reply is routed to the only active session; with two or more
\* active sessions it yields the ambiguous-reply error and nothing is relayed
C4_BareReply == []C4_Decision /\ [][C4_Step]_vars /\ []AllToRoutedSession

\* C4 witness: a bare reply was delivered to the only active session
C4_Witness ==
    /\ rp.pc = "enter"
    /\ rp.number = 0
    /\ Len(projects) = 1
    /\ rp.resolved = projects[1].key
    /\ SendKeysCmds[1].target = projects[1].value.sessionId
    /\ SendKeysCmds[1].keys = <<"Y">>

\* C5, the decision: "k PAYLOAD" with 1 <= k <= N is routed to the session at
\* position k of the N active ones with PAYLOAD; with k = 0 or k > N it is
\* answered with the invalid-number error
C5_Decision ==
    \A r \in NumberedReplies :
        LET d == routeMessage(projects, r.text, TMUX_SESSION)
        IN  IF r.k \in 1..Len(projects)
            THEN /\ d.kind = "route"
                 /\ d.sessionId = projects[r.k].value.sessionId
                 /\ d.projectName = projects[r.k].value.projectName
                 /\ d.response = r.payload
            ELSE d.kind = "invalidNumber"

\* C5, the step: a numbered reply that starts a relay goes to the session at
\* its position; the step that answers with the invalid-number error relays
\* nothing and changes neither the registry nor the armed flag
C5_Step ==
    /\ (rp.pc = "idle" /\ rp'.pc # "idle" /\ rp'.number >= 1)
          => /\ rp'.number <= Len(projects)
             /\ rp'.sessionId = projects[rp'.number].value.sessionId
             /\ rp'.resolved = projects[rp'.number].key
    /\ out'.msg = "invalidNumber"
          => /\ rp' = RpIdle
             /\ tmuxCmds' = << >>
             /\ projects' = projects
             /\ armed' = armed

\* C5: "k PAYLOAD" goes to the session at 0-based index k-1 when 1 <= k <= N,
\* and is rejected with the invalid-number error, nothing relayed and the
\* registry unchanged, when k = 0 or k > N
C5_NumberedReply == []C5_Decision /\ [][C5_Step]_vars

\* C5 witness: "2 Y" was delivered to the second of two sessions
C5_Witness ==
    /\ rp.pc = "enter"
    /\ rp.number = 2
    /\ Len(projects) = 2
    /\ rp.resolved = projects[2].key
    /\ SendKeysCmds[1].target = projects[2].value.sessionId
    /\ SendKeysCmds[1].keys = <<"Y">>

\* C6: when the existence check reports the session a reply was resolved to
\* as absent, that session is no longer in the registry once the cleanup ran
C6_StaleSessionRemoved ==
    [][(rp.pc = "cleanup" /\ rp'.pc = "idle" /\ rp.resolved # Empty)
          => ~MapHas(projects', rp.resolved)]_vars

\* C7: a session whose relayTarget has a character outside [A-Za-z0-9_-] is
\* never stored in the registry
C7_InvalidTargetNotStored ==
    \A i \in 1..Len(projects) : validateSessionName(projects[i].value.sessionId)

\* C8: of the register calls for one sessionId, while it stays registered,
\* only the first returns true, and registeredAt stays what that call stored
C8_FirstRegistrationOnly ==
    \A p \in ProjectIds :
        /\ life[p].regTrue <= 1
        /\ MapHas(projects, p) =>
              /\ life[p].regTrue = 1
              /\ MapGet(projects, p).registeredAt = life[p].firstAt

\* C8 witness: a later register call, at a later time, returned false and
\* kept the registeredAt of the first
C8_Witness ==
    \E h \in Handlers :
        /\ ev[h].pc = "capture"
        /\ ~ev[h].isNew
        /\ MapHas(projects, ev[h].projectId)
        /\ MapGet(projects, ev[h].projectId).registeredAt
              < MapGet(projects, ev[h].projectId).lastNotified

\* C9 as claimed: at most one welcome message is ever sent for a sessionId
C9_AtMostOneWelcomeEver == out.msg = "welcome" => ~out.repeat

\* C9 as amended: at most one welcome message is sent for a sessionId while
\* it stays registered (after a stale-session removal the next event for it
\* registers it anew and sends a welcome message again)
C9_OneWelcomePerRegistration == \A p \in ProjectIds : life[p].welcomes <= 1

\* C9 witness: while armed, an event for a session already welcomed goes on
\* to the capture without a second welcome message
C9_Witness ==
    \E h \in Handlers :
        /\ ev[h].pc = "capture"
        /\ ~ev[h].isNew
        /\ armed
        /\ life[ev[h].projectId].welcomes = 1

\* C10: canNotify is false for every sessionId whenever isArmed() is false,
\* and no handler ever got true from it while disarmed
C10_DisarmedNeverNotifies ==
    /\ ~armed => \A p \in ProjectIds \cup {sF} : ~canNotify(projects, armed, p, now)
    /\ ~passedDisarmed

\* C10 witness: disarmed, a handler was refused by canNotify for a registered
\* session that was never notified
C10_Witness ==
    /\ ~armed
    /\ out.log = "rateLimited"
    /\ Len(projects) = 1
    /\ projects[1].value.lastNotified = 0

\* the throttle window of project p is over, or p was never notified
C11_Due(p) ==
    \/ MapGet(projects, p).lastNotified = 0
    \/ now - MapGet(projects, p).lastNotified >= 5000

\* C11, one step: while armed, a handler that comes to the canNotify check
\* for a registered project, after its welcome message or at once, goes on to
\* the capture exactly if the project was never notified or 5000 ms have
\* passed since lastNotified, and then lastNotified is the present time;
\* lastNotified never moves by less than 5000 ms; a handler that went on to
\* the capture hands over a prompt, and a prompt comes from no other step
C11_Step ==
    /\ \A h \in AllHandlers :
          (ev[h].pc = "welcome" /\ ev'[h] # ev[h] /\ armed
              /\ MapHas(projects, ev[h].projectId))
             => (ev'[h].pc = "capture" <=> C11_Due(ev[h].projectId))
    /\ (out'.http = "200" /\ armed /\ MapHas(projects, out'.event))
          => ((\E h \in AllHandlers : ev[h].pc = "idle" /\ ev'[h].pc = "capture")
                 <=> C11_Due(out'.event))
    /\ \A h \in AllHandlers :
          (ev[h].pc # "capture" /\ ev'[h].pc = "capture")
             => MapGet(projects', ev'[h].projectId).lastNotified = now
    /\ \A p \in ProjectIds :
          (MapHas(projects, p) /\ MapHas(projects', p)
              /\ MapGet(projects', p).lastNotified # MapGet(projects, p).lastNotified)
             => \/ MapGet(projects, p).lastNotified = 0
                \/ MapGet(projects', p).lastNotified
                      - MapGet(projects, p).lastNotified >= 5000
    /\ \A h \in AllHandlers :
          (ev[h].pc = "capture" /\ ev'[h] # ev[h]) => out'.msg = "prompt"
    /\ out'.msg = "prompt"
          => \E h \in AllHandlers : ev[h].pc = "capture" /\ ev'[h].pc = "idle"

\* C11: while armed and for a registered session, an event results in a
\* prompt notification if and only if lastNotified is unset or at least
\* 5000 ms old when canNotify is asked, under every interleaving of two
\* handlers for the same session: two events inside one window never both
\* pass the canNotify/recordNotification pair
C11_ThrottleWindow == [][C11_Step]_vars

\* C11 witness: while armed, of two events for one project inside one
\* window, one is at its capture and the other was just throttled
C11_Witness ==
    /\ armed
    /\ out.log = "rateLimited"
    /\ out.http = "200"
    /\ \E h \in AllHandlers :
          /\ ev[h].pc = "capture"
          /\ ev[h].projectId = out.event
          /\ MapGet(projects, out.event).lastNotified = now

\* C12, one step: a request for a project not yet registered, handled while
\* disarmed, sends no message and appends the project to the registry as its
\* last entry; the step that confirms ON leaves the system armed, the one
\* that confirms OFF leaves it disarmed, and nothing else changes the flag
C12_Step ==
    /\ (out'.http = "200" /\ out'.log # "noSession" /\ ~armed
           /\ ~MapHas(projects, out'.event))
          => /\ out'.msg = "none"
             /\ Len(projects') = Len(projects) + 1
             /\ SubSeq(projects', 1, Len(projects)) = projects
             /\ projects'[Len(projects')].key = out'.event
             /\ getActiveProjects(projects')[Len(projects')]
                   = MapGet(projects', out'.event)
    /\ out'.msg = "armed" => armed'
    /\ out'.msg = "disarmed" => ~armed'
    /\ armed' # armed => out'.msg \in {"armed", "disarmed"}

\* C12, the commands: ON and OFF are recognised whatever their case and
\* surrounding blanks, in every registry state
C12_Commands ==
    /\ \A text \in { <<"O", "N">>, <<" ", "o", "n", "\n">> } :
          routeMessage(projects, text, TMUX_SESSION).kind = "on"
    /\ \A text \in { <<"O", "F", "F">>, <<"o", "f", "f">> } :
          routeMessage(projects, text, TMUX_SESSION).kind = "off"

\* C12: an event for an unseen session while disarmed sends no message but
\* registers the session, last in the order; ON then OFF leaves the system
\* disarmed, OFF then ON leaves it armed
C12_DisarmedRegisters == [][C12_Step]_vars /\ []C12_Commands

\* C12 witness: disarmed, a second project was just registered, last in the
\* order, without a message
C12_Witness ==
    /\ ~armed
    /\ out.log = "suppressed"
    /\ out.msg = "none"
    /\ Len(projects) = 2
    /\ projects[2].key = out.event
    /\ projects[2].value.lastNotified = 0
    /\ projects[2].value.registeredAt = now

\* C13: the registry starts disarmed, and until an ON command has been
\* handled the system is disarmed, no welcome or prompt message is handed
\* over and no handler is waiting to send one
C13_NothingBeforeFirstOn ==
    ~everArmed =>
        /\ ~armed
        /\ out.msg \notin {"welcome", "prompt"}
        /\ \A h \in AllHandlers : ev[h].pc = "idle"

\* C13 witness: two events were handled and no ON command yet
C13_Witness ==
    /\ ~everArmed
    /\ Len(projects) = 2
    /\ out.log = "suppressed"

\* the lines of a text
RECURSIVE C14_Lines(_)
C14_Lines(text) ==
    LET n == PrefixLen(text, {c \in Digits \cup Whitespace \cup Lower \cup Upper
                                 \cup {"[", "]", "_", "-", ";"} : c # "\n"})
    IN  IF n = Len(text) THEN <<text>>
        ELSE <<SubSeq(text, 1, n)>> \o C14_Lines(SubSeq(text, n + 2, Len(text)))

\* "[i] " for i up to 9
C14_Label(i) ==
    <<"[", <<"1", "2", "3", "4", "5", "6", "7", "8", "9">>[i], "]", " ">>

\* C14, the message: a prompt formatted with two or more active projects
\* has one line "[i] projectName" per active project, in registry order,
\* numbered from 1, and then the context; with exactly one active project it
\* is the single-project template without a list
C14_Message ==
    out.msg = "prompt" =>
        /\ Len(projects) = 1 =>
              /\ out.body.template = "single"
              /\ out.body.list = Empty
        /\ Len(projects) >= 2 =>
              /\ out.body.template = "numbered"
              /\ Len(C14_Lines(out.body.list)) = Len(projects)
              /\ \A i \in 1..Len(projects) :
                    C14_Lines(out.body.list)[i]
                       = C14_Label(i) \o projects[i].value.projectName

\* C14, the step: the context in a prompt is that of the session of the
\* event that triggered it, and the formatting leaves the registry as it is
C14_Step ==
    \A h \in AllHandlers :
        (ev[h].pc = "capture" /\ ev'[h].pc = "idle")
           => /\ out'.body.context.of = ev[h].sessionId
              /\ out'.body.template = "numbered" => out'.body.latest = ev[h].projectName
              /\ projects' = projects

\* C14: with two or more active sessions a prompt lists every active session
\* once as "[i] displayName", i its 1-based position, followed by the
\* triggering session's context; with exactly one, the simple template
C14_NumberedPrompt == []C14_Message /\ [][C14_Step]_vars

\* C14 witness: a numbered prompt was sent with two projects registered
C14_Witness ==
    /\ out.msg = "prompt"
    /\ Len(projects) = 2
    /\ out.body.template = "numbered"
    /\ Len(C14_Lines(out.body.list)) = 2

\* C15: no exception leaves handleMessage (a rejected call is one whose
\* exception reached the poll loop)
C15_NoExceptionEscapes == rp.pc # "rejected"

\* C16 as claimed: every request for a project is answered with success
C16_AlwaysSuccess == out.event # Empty => out.http = "200"

\* C16, one step: a request is answered 429 if its project's limiter window
\* is open and used up, and 200 otherwise, whatever the handler then does;
\* a handler starts only in a step that answered 200, and the later steps of
\* a handler, the capture and the sends, answer nothing
C16_Step ==
    /\ out'.event # Empty
          => out'.http = IF /\ limiter[out'.event].resetTime > now
                            /\ limiter[out'.event].totalHits >= 1
                         THEN "429" ELSE "200"
    /\ out'.event = Empty => out'.http = ""
    /\ \A h \in AllHandlers :
          (ev[h].pc = "idle" /\ ev'[h].pc # "idle") => out'.http = "200"
    /\ out'.http = "429"
          => /\ projects' = projects
             /\ ev' = ev
             /\ out'.msg = "none"

\* C16 as amended: every request the rate limiter admits is answered with
\* success in the step that receives it, before any capture or send of its
\* handler, and whether it is then suppressed, throttled or fails
C16_SuccessWhenAdmitted == [][C16_Step]_vars

\* C16 witness: a request was answered 200 and throttled by the registry
C16_Witness ==
    /\ out.http = "200"
    /\ out.log = "rateLimited"


\* the pollLoop() calls in progress
ActiveLoops == {l \in LoopIds : loops[l].pc # "off"}

\* C17: under every interleaving of startPolling and stopPolling with the
\* getUpdates waits in flight, at most one poll loop is active at any time
C17_AtMostOneLoop == Cardinality(ActiveLoops) <= 1

\* C18: once stopPolling was called and startPolling is not called again,
\* the poll loop reaches its stopped state, given that every getUpdates
\* wait returns in bounded time
C18_StopsAfterStopPolling == ~polling ~> (polling \/ ActiveLoops = {})

\* the part of C18 that needs no wait to end: while polling is false no
\* getUpdates call is started, and a loop whose getUpdates settles returns
\* without handling an update or moving lastUpdateId
C18_Step ==
    (~polling /\ ~polling') =>
        \A l \in LoopIds :
            /\ loops'[l].pc \in {"flush", "poll"} => loops'[l] = loops[l]
            /\ (loops[l].pc \in {"flush", "poll"} /\ loops'[l] # loops[l]) =>
                   /\ loops'[l] = LoopOff
                   /\ rp' = rp
                   /\ armed' = armed
                   /\ tmuxCmds' = tmuxCmds
                   /\ out' = NoOut

C18_NoNewPollOnceStopped == [][C18_Step]_vars

\* ... and the loop does stop where the tmux commands settle too
C18_StopsWhereTmuxSettles == TmuxFairness => C18_StopsAfterStopPolling

\* loop l learns in this step that its getUpdates call failed, and starts
\* its next getUpdates call in the same step
FailedAndPolledAgain(l) ==
    /\ loops[l].pc = "poll"
    /\ loops'[l].pc = "poll"
    /\ loops'[l].calls # loops[l].calls
    /\ loops'[l].lastPoll = "failed"

\* C19: whenever a poll of the messaging channel fails, the loop does not
\* start its next poll until a backoff delay has elapsed
C19_BackoffAfterFailedPoll ==
    [][\A l \in LoopIds : ~FailedAndPolledAgain(l)]_vars

\* in this step the for loop of l passes over an update of another chat
C20_Passes(l) ==
    /\ loops[l].pc = "next"
    /\ Head(loops[l].batch).chat # OperatorChat
    /\ loops'[l] # loops[l]

\* in this step a message of another chat reaches the Telegram server
C20_Arrives ==
    /\ Len(updates') = Len(updates) + 1
    /\ updates'[Len(updates')].chat # OperatorChat

\* a message of another chat changes nothing but the server's list of
\* updates when it arrives, and nothing but lastUpdateId and the position of
\* the loop when the loop comes to it
C20_Step ==
    /\ C20_Arrives =>
          /\ serverVars' = serverVars
          /\ out' = NoOut
          /\ <<polling, lastUpdateId, loops>>' = <<polling, lastUpdateId, loops>>
    /\ \A l \in LoopIds :
          C20_Passes(l) =>
              /\ serverVars' = serverVars
              /\ out' = NoOut
              /\ polling' = polling
              /\ updates' = updates
              /\ lastUpdateId' = Head(loops[l].batch).update_id + 1
              /\ loops'[l] = forUpdates(loops[l], Tail(loops[l].batch), polling,
                                        lastUpdateId')
              /\ \A k \in LoopIds \ {l} : loops'[k] = loops[k]

\* C20: a message from a chat other than the configured operator chat is
\* dropped: it never toggles arming, relays a payload, removes a session or
\* triggers a reply, so that runs differing only in such messages have the
\* same registry state, relay commands and outbound messages
C20_NonOperatorDropped == [][C20_Step]_vars

\* with one session registered, the loop has passed over "Y" from another
\* chat and is about to handle a message of the operator: nothing was
\* relayed, the session is still registered, the system is still disarmed
C20_Witness ==
    \E l \in LoopIds :
        /\ loops[l].pc = "next"
        /\ Len(loops[l].batch) = 1
        /\ loops[l].batch[1].chat = OperatorChat
        /\ loops[l].batch[1].update_id = 2
        /\ Len(updates) = 2
        /\ updates[1].chat = StrangerChat
        /\ updates[1].text = <<"Y">>
        /\ lastUpdateId = 2
        /\ Len(projects) = 1
        /\ rp = RpIdle
        /\ tmuxCmds = << >>
        /\ ~armed
        /\ ~everArmed
        /\ out = NoOut

\* frag occurs in s as a contiguous run
Occurs(frag, s) ==
    \E i \in 1..(Len(s) - Len(frag) + 1) : SubSeq(s, i, i + Len(frag) - 1) = frag

\* some contiguous run of 8 characters of secret occurs in s
FragmentSurvives(secret, s) ==
    \E i \in 1..(Len(secret) - 7) : Occurs(SubSeq(secret, i, i + 7), s)

\* the text as it would leave formatForSMS with nothing redacted or cut
Unredacted(text) == trim(stripNonAscii(stripAnsiCodes(text)))

\* the position of secret in s, 0 if it does not occur
PositionOf(secret, s) ==
    IF Occurs(secret, s)
    THEN CHOOSE i \in 1..Len(s) :
            /\ SubSeq(s, i, i + Len(secret) - 1) = secret
            /\ \A k \in 1..(i - 1) : SubSeq(s, k, k + Len(secret) - 1) # secret
    ELSE 0

\* cutting the unredacted text at maxChars would cut the secret in two
Straddles(input, maxChars) ==
    LET at == PositionOf(input.secret, Unredacted(input.text))
    IN  /\ at # 0
        /\ at <= maxChars
        /\ maxChars < at + Len(input.secret) - 1

\* the rule the secret is redacted by matches the text as redaction sees it
RuleMatches(input) ==
    \E i \in 1..Len(input.text) :
        MatchAt(REDACTION_PATTERNS[input.rule].name, stripAnsiCodes(input.text), i) # 0

\* a rule ahead of the secret's rule in REDACTION_PATTERNS matches in the text
EarlierRuleMatches(input) ==
    \E r \in 1..(input.rule - 1), i \in 1..Len(input.text) :
        MatchAt(REDACTION_PATTERNS[r].name, stripAnsiCodes(input.text), i) # 0

\* formatForSMS has returned
Formatted == fmt # NoFormat /\ fmt.n = Len(Stages)

\* C21: the stages run in the order strip control sequences, redact, strip
\* non-ASCII, trim, truncate, so that for every input whose rule-matching
\* secret straddles the truncation boundary no contiguous run of 8 or more
\* characters of the secret is in the output
C21_NoFragmentOfSecret ==
    (Formatted /\ RuleMatches(fmt.input) /\ Straddles(fmt.input, fmt.maxChars)) =>
        /\ fmt.cleaned = formatForSMS(fmt.input.text, fmt.maxChars)
        /\ ~FragmentSurvives(fmt.input.secret, fmt.cleaned)

\* the same at every truncation limit for the secrets no earlier rule
\* matches a part of
C21_NoFragmentUnlessOverlapped ==
    (Formatted /\ RuleMatches(fmt.input) /\ ~EarlierRuleMatches(fmt.input)) =>
        /\ fmt.cleaned = formatForSMS(fmt.input.text, fmt.maxChars)
        /\ ~FragmentSurvives(fmt.input.secret, fmt.cleaned)


\* C22: every step that handles a reply whose text is empty after trimming
\* sends a help message and issues no terminal command
C22_EmptyReplyGetsHelp ==
    [][\A text \in BlankTexts :
          ReplyStart(text) => /\ out'.msg = "help"
                              /\ tmuxCmds' = tmuxCmds]_vars

\* a reply whose text is empty after trimming issues no terminal command and
\* changes nothing, and no literal text that is empty after trimming is ever
\* among the commands
C22_BlankStep ==
    \A text \in BlankTexts :
        ReplyStart(text) => UNCHANGED <<projects, armed, rp, tmuxCmds>>

C22_NoBlankLiteral ==
    \A i \in DOMAIN tmuxCmds :
        (tmuxCmds[i].cmd = "send-keys" /\ tmuxCmds[i].literal) =>
            trim(tmuxCmds[i].keys) # Empty

C22_EmptyNeverDelivered == [][C22_BlankStep]_vars /\ []C22_NoBlankLiteral


\* the keys of the registry
RegisteredIds(ps) == {ps[i].key : i \in 1..Len(ps)}

\* C23: a step takes a session out of the registry only when it is the
\* cleanup of a reply whose existence check for the resolved tmux session
\* came back false; it then takes out exactly one entry, one with that tmux
\* session, and leaves the armed flag alone.  No other step (ON, OFF, invalid
\* number, ambiguous or relayed reply, agent event) removes a session.
C23_Step ==
    (RegisteredIds(projects) \ RegisteredIds(projects') # {}) =>
        /\ rp.pc = "cleanup"
        /\ rp'.pc = "idle"
        /\ \E i \in 1..Len(projects) :
              /\ projects[i].value.sessionId = rp.sessionId
              /\ projects' = MapDelete(projects, projects[i].key)
        /\ armed' = armed

C23_RemovedOnlyWhenSessionGone == [][C23_Step]_vars

\* the existence check came back false for the tmux session of a registered
\* project while two are registered; the cleanup is about to remove one
C23_Witness ==
    /\ rp.pc = "cleanup"
    /\ Len(projects) = 2
    /\ findProjectIdBySession(projects, rp.sessionId) # Empty


\* the registry once the register call of a request with this payload has
\* returned
Registered(payload) ==
    register(projects, PayloadProjectId(payload),
             PayloadSessionId(payload, TMUX_SESSION), PayloadProjectName(payload),
             now).projects

\* ps is qs but for the tmux session and the name of the entry at position k
SameButTarget(ps, qs, k, sessionId, projectName) ==
    /\ Len(ps) = Len(qs)
    /\ ps[k].key = qs[k].key
    /\ ps[k].value.sessionId = sessionId
    /\ ps[k].value.projectName = projectName
    /\ ps[k].value.lastNotified = qs[k].value.lastNotified
    /\ ps[k].value.registeredAt = qs[k].value.registeredAt
    /\ \A j \in 1..Len(qs) : j # k => ps[j] = qs[j]

\* C24, the call: register for a projectId that is registered stores the new
\* tmux session and name and leaves lastNotified, registeredAt, the position
\* of the entry and every other entry as they were
C24_Register ==
    \A payload \in Payloads :
        MapHas(projects, PayloadProjectId(payload)) =>
            SameButTarget(Registered(payload), projects,
                          KeyIndex(projects, PayloadProjectId(payload)),
                          PayloadSessionId(payload, TMUX_SESSION),
                          PayloadProjectName(payload))

\* C24, the step: a request that is admitted for a registered project and
\* suppressed (the system is disarmed, or the project was notified less than
\* ThrottleMs ago) leaves the registry as register returned it, and the armed
\* flag as it was; one that goes on to notify differs in the lastNotified that
\* recordNotification then sets, and in nothing else
C24_Step ==
    \A h \in Handlers, payload \in Payloads :
        LET projectId == PayloadProjectId(payload)
        IN  (/\ EventStart(h, payload)
             /\ out'.http # "429"
             /\ MapHas(projects, projectId)) =>
                /\ armed' = armed
                /\ projects' \in { Registered(payload),
                                   recordNotification(Registered(payload), projectId, now) }
                /\ ev'[h].pc = "idle" => projects' = Registered(payload)

C24_ReRegistration == []C24_Register /\ [][C24_Step]_vars

\* p1, the first of two projects, is registered a second time, under another
\* tmux session, after it was notified, the system was disarmed and the clock
\* has moved on; its record keeps the time of the first registration and of
\* the notification
C24_Witness ==
    /\ Len(projects) = 2
    /\ projects[1].key = p1
    /\ projects[1].value.sessionId = sB
    /\ projects[1].value.registeredAt = StartTime
    /\ projects[1].value.lastNotified = StartTime
    /\ now > StartTime
    /\ out.event = p1
    /\ out.log = "suppressed"


\* C25, the listing: the keys of the registry are unique, getActiveProjects
\* has one record for each of them, in the order of the registry, getByIndex(i)
\* is element i of getActiveProjects (counted from 0) and undefined outside
\* it, and the records stand in the order of their registeredAt
C25_Listing ==
    /\ \A i, j \in 1..Len(projects) : projects[i].key = projects[j].key => i = j
    /\ Len(getActiveProjects(projects)) = Cardinality(RegisteredIds(projects))
    /\ \A i \in 1..Len(projects) :
          /\ getActiveProjects(projects)[i] = MapGet(projects, projects[i].key)
          /\ getByIndex(projects, i - 1) = getActiveProjects(projects)[i]
    /\ getByIndex(projects, -1) = Undefined
    /\ getByIndex(projects, Len(projects)) = Undefined
    /\ \A i, j \in 1..Len(projects) :
          i < j => projects[i].value.registeredAt <= projects[j].value.registeredAt

\* C25, the step: two sessions that both stay registered keep their relative
\* order, and a session that is new to the registry is listed last
C25_Step ==
    /\ \A a, b \in RegisteredIds(projects) \cap RegisteredIds(projects') :
          KeyIndex(projects, a) < KeyIndex(projects, b)
              <=> KeyIndex(projects', a) < KeyIndex(projects', b)
    /\ \A a \in RegisteredIds(projects') \ RegisteredIds(projects) :
          KeyIndex(projects', a) = Len(projects')

C25_RegistrationOrder == []C25_Listing /\ [][C25_Step]_vars

\* three sessions are listed; p1, registered first, was removed and registered
\* again later and is now last, behind p2, which was notified and registered
\* again under another tmux session
C25_Witness ==
    /\ Len(projects) = 3
    /\ projects[1].key = p2
    /\ projects[1].value.registeredAt = StartTime
    /\ projects[1].value.lastNotified # 0
    /\ projects[1].value.sessionId = sB
    /\ projects[2].key = p3
    /\ projects[3].key = p1
    /\ projects[3].value.registeredAt > StartTime
    /\ armed


\* C26, the decision: with no session registered a bare reply is routed to
\* TMUX_SESSION with its trimmed text when the variable is set, and answered
\* with the no-active-projects error when it is not; a numbered reply is
\* never routed to it; with one or more sessions registered every routed
\* reply goes to the tmux session of a registered project
C26_Decision ==
    /\ \A t \in BareTexts :
          LET d == routeMessage(projects, t, TMUX_SESSION)
          IN  Len(projects) = 0 =>
                  IF TMUX_SESSION # Empty
                  THEN /\ d.kind = "route"
                       /\ d.sessionId = TMUX_SESSION
                       /\ d.response = <<"Y">>
                  ELSE d.kind = "noProjects"
    /\ \A r \in NumberedReplies :
          Len(projects) = 0 =>
              routeMessage(projects, r.text, TMUX_SESSION).kind = "invalidNumber"
    /\ \A t \in Texts :
          LET d == routeMessage(projects, t, TMUX_SESSION)
          IN  (Len(projects) >= 1 /\ d.kind = "route") =>
                  /\ ResolvedKey(projects, d) # Empty
                  /\ d.sessionId = MapGet(projects, ResolvedKey(projects, d)).sessionId

\* C26, the step: a reply that starts a relay with no session registered is
\* a bare one and goes to the configured TMUX_SESSION, beginning with the
\* existence check; the step that answers with the no-active-projects error
\* was taken with no session and no TMUX_SESSION and relays nothing; a relay
\* started with a session registered goes to a registered project's session
C26_Step ==
    /\ (rp.pc = "idle" /\ rp'.pc # "idle" /\ Len(projects) = 0)
          => /\ TMUX_SESSION # Empty
             /\ rp'.sessionId = TMUX_SESSION
             /\ rp'.number = 0
             /\ rp'.resolved = Empty
             /\ rp'.pc = "hasSession"
             /\ tmuxCmds' = <<HasSessionCmd(TMUX_SESSION)>>
    /\ out'.msg = "noProjects"
          => /\ Len(projects) = 0
             /\ TMUX_SESSION = Empty
             /\ rp' = RpIdle
             /\ tmuxCmds' = << >>
             /\ projects' = projects
    /\ (rp.pc = "idle" /\ rp'.pc # "idle" /\ Len(projects) >= 1)
          => /\ MapHas(projects, rp'.resolved)
             /\ rp'.sessionId = MapGet(projects, rp'.resolved).sessionId

\* every send-keys command comes after an existence check of its session
C26_CheckedFirst ==
    \A i \in 1..Len(tmuxCmds) :
        tmuxCmds[i].cmd = "send-keys" =>
            /\ tmuxCmds[1] = HasSessionCmd(tmuxCmds[i].target)
            /\ tmuxCmds[i].target = rp.sessionId

C26_FallbackOnlyWhenEmpty == []C26_Decision /\ [][C26_Step]_vars /\ []C26_CheckedFirst

\* a bare reply was delivered to the configured TMUX_SESSION while no session
\* was registered
C26_Witness ==
    /\ rp.pc = "enter"
    /\ rp.number = 0
    /\ rp.resolved = Empty
    /\ rp.sessionId = sF
    /\ TMUX_SESSION = sF
    /\ Len(projects) = 0
    /\ SendKeysCmds[1] = LiteralCmd(sF, <<"Y">>)


\* the prompt a handler hands over when captureContext threw for its session
PlaceholderPrompt(h) ==
    [Msg("prompt") EXCEPT
        !.body = PromptMessage(projects, ev[h].projectName,
                               [of |-> ev[h].sessionId, placeholder |-> TRUE])]

\* C27: a handler that awaits captureContext (its event passed the armed and
\* the throttle check) ends, whether the capture fails or not, with exactly
\* one prompt handed over and without an error; a capture that fails, as it
\* must for a tmux session name that validateSessionName rejects, gives the
\* prompt with the placeholder naming the session; prompts are handed over
\* by no other step
C27_Step ==
    /\ \A h \in Handlers :
          (ev[h].pc = "capture" /\ ev'[h] # ev[h]) =>
              /\ ev'[h] = EvIdle
              /\ out'.msg = "prompt"
              /\ out'.body.context.of = ev[h].sessionId
              /\ out'.body.context.placeholder => out' = PlaceholderPrompt(h)
              /\ ~validateSessionName(ev[h].sessionId) => out' = PlaceholderPrompt(h)
              /\ UNCHANGED <<projects, armed, rp, tmuxCmds>>
    /\ out'.msg = "prompt" =>
          \E h \in Handlers : ev[h].pc = "capture" /\ ev'[h] = EvIdle

C27_PlaceholderOnCaptureFailure == [][C27_Step]_vars

\* the prompt with the placeholder was handed over for sA, a session whose
\* name is valid, while two projects are registered
C27_Witness ==
    /\ out.msg = "prompt"
    /\ out.body.context.placeholder
    /\ out.body.context.of = sA
    /\ out.body.template = "numbered"
    /\ ev["h1"] = EvIdle


\* C28: the rate limiter in front of the route counts an event under the key
\* the registry stores it under, so an event is answered 429 only when an
\* event for the same project was admitted, and so registered, before
C28_Step ==
    out'.http = "429" => MapHas(projects, out'.event)

C28_RejectedOnlyAfterOwnEvent == [][C28_Step]_vars


\* C29, the state: a call of hasSession, captureContext or sendKeys with a
\* target that does not match ^[A-Za-z0-9_-]+$ has thrown the invalid-name
\* error and issued no tmux command; every tmux command issued by a call has
\* the call's target, which matches
C29_Validated ==
    /\ (call.pc # "idle" /\ ~validateSessionName(call.session)) =>
          /\ call.pc = "thrown"
          /\ call.result = "InvalidTarget"
          /\ tmuxCmds = << >>
    /\ call.pc # "idle" =>
          \A i \in 1..Len(tmuxCmds) :
              /\ tmuxCmds[i].target = call.session
              /\ \A k \in 1..Len(call.session) : call.session[k] \in SessionNameChars
              /\ call.session # Empty

\* C29, the step: the call of a method with such a target is one step that
\* ends in the error, and the next step hands the error to the caller
C29_Step ==
    (call'.pc # "idle" /\ \E k \in 1..Len(call'.session) :
                              call'.session[k] \notin SessionNameChars) =>
        /\ call.pc = "idle"
        /\ call'.result = "InvalidTarget"
        /\ tmuxCmds' = << >>

C29_ValidatesFirst == []C29_Validated /\ [][C29_Step]_vars

\* sendKeys was called with a target that has a colon and has thrown
C29_Witness ==
    /\ call.op = "sendKeys"
    /\ call.session = <<"s", "A", ":", "1">>
    /\ call.pc = "thrown"
    /\ call.result = "InvalidTarget"
    /\ tmuxCmds = << >>


\* C30: a reply "i PAYLOAD" that arrives after a prompt whose numbered list
\* showed a session as [i] is routed to that session or rejected, whatever
\* was registered or removed since the prompt
C30_Step ==
    (/\ rp.pc = "idle"
     /\ rp'.pc # "idle"
     /\ rp'.number \in 1..Len(shown)) => rp'.resolved = shown[rp'.number]

C30_NumberKeepsItsSession == [][C30_Step]_vars


\* C31: a prompt in the single-session template is built while the only
\* registered project is the one whose event triggered it, so that a bare
\* reply to it goes to the triggering session
C31_Step ==
    \A h \in Handlers :
        (ev[h].pc = "capture" /\ ev'[h] = EvIdle /\ out'.body.template = "single") =>
            /\ Len(projects) = 1
            /\ projects[1].key = ev[h].projectId
            /\ \A t \in BareTexts :
                  routeMessage(projects', t, TMUX_SESSION).sessionId = ev[h].sessionId

C31_SingleTemplateIsTriggering == [][C31_Step]_vars


\* C32: the cleanup of a reply that was resolved to a project still
\* registered removes that project and no other, also when another project
\* is registered under the same tmux session
C32_Step ==
    (rp.pc = "cleanup" /\ rp'.pc = "idle" /\ MapHas(projects, rp.resolved)) =>
        projects' = MapDelete(projects, rp.resolved)

C32_RemovesResolvedSession == [][C32_Step]_vars


\* C33: recordNotification, which lets the prompt of an event go out, never
\* runs for a project less than ThrottleMs after it last ran for that
\* project, also when the project was removed and registered again in between
C33_Step ==
    \A h \in AllHandlers :
        (ev[h].pc # "capture" /\ ev'[h].pc = "capture") =>
            \/ notified[ev'[h].projectId] = 0
            \/ now - notified[ev'[h].projectId] >= ThrottleMs

C33_PromptsAWindowApart == [][C33_Step]_vars

\* C34: when a prompt for a project is handed to telegramService.sendMessage,
\* a welcome message for that project was handed over before, also when the
\* project was first registered while the system was disarmed
C34_Step ==
    \A h \in AllHandlers :
        (ev[h].pc = "capture" /\ ev'[h] = EvIdle /\ out'.msg = "prompt") =>
            welcomed[ev[h].projectId]

C34_WelcomeBeforeFirstPrompt == [][C34_Step]_vars

\* C35: lastUpdateId never decreases, so that no update is handled twice and
\* no getUpdates call asks again for an update already handled, under every
\* interleaving of startPolling and stopPolling with the loop
C35_LastUpdateIdNeverDecreases == [][lastUpdateId' >= lastUpdateId]_vars

\* the ON commands and the OFF commands among the inbound texts
C36_OnTexts == { <<"O", "N">>, <<" ", "o", "n", "\n">> }

C36_OffTexts == { <<"O", "F", "F">>, <<"o", "f", "f">> }

\* C36: an ON or OFF reply sets the armed flag, hands over exactly its one
\* confirmation message, and leaves the registry (the projects, their order
\* and every field of each), the event handlers and the tmux sessions alone;
\* and armed changes in no step but the handling of an ON or OFF reply
C36_Step ==
    /\ \A text \in C36_OnTexts \cup C36_OffTexts :
          ReplyStart(text) =>
              /\ armed' = (text \in C36_OnTexts)
              /\ out' = Msg(IF text \in C36_OnTexts THEN "armed" ELSE "disarmed")
              /\ projects' = projects
              /\ ev' = ev
              /\ rp' = rp
              /\ tmuxCmds' = tmuxCmds
    /\ armed' # armed =>
          \E text \in C36_OnTexts \cup C36_OffTexts : ReplyStart(text)

C36_ControlChangesOnlyArmed == [][C36_Step]_vars

\* C36 witness: OFF was confirmed with two projects registered, after the
\* system had been armed
C36_Witness ==
    /\ out.msg = "disarmed"
    /\ ~armed
    /\ everArmed
    /\ Len(projects) = 2

\* C37: when sendKeys issues the literal send-keys command, its target is the
\* tmux session of a project registered at that moment, or the TMUX_SESSION
\* fallback; also when an event re-registered the resolved project with
\* another tmux session while the reply was awaiting hasSession
C37_Step ==
    (rp.pc = "hasSession" /\ rp'.pc = "literal") =>
        \/ \E i \in 1..Len(projects) : projects[i].value.sessionId = rp.sessionId
        \/ /\ TMUX_SESSION # Empty
           /\ rp.sessionId = TMUX_SESSION

C37_TargetIsRegisteredAtDelivery == [][C37_Step]_vars

\* C38: when the flush getUpdates call of a pollLoop settles, nothing is
\* handled: armed, the registry, the reply and the handlers in flight and
\* the tmux commands stay as they are, no message goes out, and the for loop
\* is not entered; lastUpdateId either stays (nothing was returned) or ends
\* past every update the call could return, and the first poll starts from
\* it; where TELEGRAM_CHAT_ID is not set the loop ends right after
C38_Step ==
    \A l \in LoopIds :
        (loops[l].pc = "flush" /\ loops'[l] # loops[l]) =>
            LET stale == Unconfirmed(updates, loops[l].offset)
            IN  /\ armed' = armed
                /\ projects' = projects
                /\ ev' = ev
                /\ rp' = rp
                /\ tmuxCmds' = tmuxCmds
                /\ out' = NoOut
                /\ \/ lastUpdateId' = lastUpdateId
                   \/ /\ stale # << >>
                      /\ \A i \in 1..Len(stale) : stale[i].update_id < lastUpdateId'
                /\ loops'[l].batch = << >>
                /\ IF TELEGRAM_CHAT_ID = Empty
                   THEN loops'[l] = LoopOff /\ ~polling'
                   ELSE \/ loops'[l] = LoopOff /\ ~polling
                        \/ /\ loops'[l].pc = "poll"
                           /\ loops'[l].offset = lastUpdateId'

C38_FlushAcknowledgesUnhandled == [][C38_Step]_vars

\* C38 witness: with no TELEGRAM_CHAT_ID the flush skipped two waiting
\* messages of the operator's chat, and the loop ended having handled none
C38_Witness ==
    /\ TELEGRAM_CHAT_ID = Empty
    /\ lastUpdateId = 3
    /\ ActiveLoops = {}
    /\ \A i \in 1..Len(updates) : updates[i].chat = OperatorChat /\ updates[i].text # Empty
    /\ Len(updates) = 2
    /\ ~armed

\* C39: once recordNotification has run in a /api/notify handler (the handler
\* awaits captureContext), that handler eventually hands its prompt to
\* telegramService.sendMessage, whether or not the capture fails and
\* whatever replies are handled meanwhile
C39_PromptFollowsRecord ==
    \A h \in Handlers :
        (ev[h].pc = "capture") ~> (ev[h] = EvIdle /\ out.msg = "prompt")

\* the part of C39 that needs no wait to end: a handler leaves the capture
\* wait only by handing over exactly its one prompt, for the session it
\* recorded the notification for
C39_Step ==
    \A h \in Handlers :
        (ev[h].pc = "capture" /\ ev'[h] # ev[h]) =>
            /\ ev'[h] = EvIdle
            /\ out'.msg = "prompt"
            /\ out'.body.context.of = ev[h].sessionId

C39_OnlyByPrompt == [][C39_Step]_vars

\* ... and the prompt does follow where captureContext settles
C39_PromptWhereCaptureSettles == CaptureFairness => C39_PromptFollowsRecord

\* backoff of every pollLoop call is between 1000 and 30000
C40_BackoffInRange ==
    \A l \in LoopIds :
        /\ loops[l].backoff >= 1000
        /\ loops[l].backoff <= 30000

\* a pollLoop call starts with backoff 1000; when the backoff timer of the
\* catch block has fired, backoff is twice what it was, or 30000 where that
\* would be more; when the for loop has ended without an exception, backoff
\* is 1000; no other step changes it
C40_Step ==
    \A l \in LoopIds :
        /\ (loops[l].pc = "off" /\ loops'[l].pc # "off") =>
              loops'[l].backoff = 1000
        /\ (loops[l].pc = "backoff" /\ loops'[l].pc = "poll") =>
              loops'[l].backoff =
                  IF loops[l].backoff >= 16000 THEN 30000 ELSE 2 * loops[l].backoff
        /\ (loops[l].pc \in {"poll", "next", "handling"} /\ loops'[l].pc = "poll"
               /\ loops'[l] # loops[l]) =>
              loops'[l].backoff = 1000
        /\ (loops[l].pc # "off" /\ loops'[l].pc \notin {"off", "poll"}) =>
              loops'[l].backoff = loops[l].backoff

C40_WitnessReset ==
    /\ loops[1].pc = "poll"
    /\ loops[1].backoff = 1000
    /\ lastUpdateId = 7
    /\ armed

\* the reading of C40 in which a failed getUpdates call counts as a poll
\* error: it does not hold, since getUpdates returns [] when it fails and
\* the catch block is not entered (see C19)
C40_PollErrorStep ==
    \A l \in LoopIds :
        FailedAndPolledAgain(l) =>
            loops'[l].backoff =
                IF loops[l].backoff >= 16000 THEN 30000 ELSE 2 * loops[l].backoff

C40_DoublesAfterFailedPoll == [][C40_PollErrorStep]_vars

====
